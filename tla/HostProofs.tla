------------------------------- MODULE HostProofs -------------------------------
(* Theorems about six of the parts around the sites, for every value of the  *)
(* constants: the entry of the panel (PanelSettings), the analysis of the    *)
(* logs (LogAnalysis), the country rules (GeoRules), the includes of a site  *)
(* (SiteIncludes), the backups (SiteBackups) and the files (FileManager).    *)
(* Each part has its inductive invariant, and a lemma for each of its        *)
(* actions.                                                                  *)
EXTENDS PanelSettings, LogAnalysis, GeoRules, SiteIncludes, SiteBackups, FileManager,
        Integers, FiniteSetTheorems, WellFoundedInduction, TLAPS

-----------------------------------------------------------------------------
(* PanelSettings: what the panel enforces is on file.                        *)

Asked == [entry : Entries \cup {Off}, limit : Limits \cup {Off}]
EntryRequest == [new : Asked, at : {"panel", "agent", "ok", "failed"}, left : BOOLEAN]
Reasons == {"raced", "unsaved", "refused", "failed", "late", "edited"}
Count == [changes : Nat, starts : Nat, troubles : Nat, why : SUBSET Reasons]

PanelTyped ==
  /\ file \in [entry : Entries \cup {Wrong}, limit : Limits]
  /\ mem \in [Processes -> Settings \cup {Off}]
  /\ start \in [Processes -> {"down", "save", "ready", "up"}]
  /\ \A p \in Processes : start[p] # "down" => mem[p] \in Settings
  /\ update \in EntryRequest \cup {Off}
  /\ count \in Count

(* A request that the panel still waits for, and one that is not carried out *)
(* yet.                                                                      *)
Awaited == update # Off /\ ~update.left
Changing == Awaited /\ update.at # "ok"

(* Who answers for a request: the panel as long as it waits, the agent as    *)
(* long as it is asked.                                                      *)
Answering ==
  update # Off =>
    /\ ~update.left => Up("panel")
    /\ update.at = "panel" => ~update.left
    /\ update.at = "agent" => Up("agent")

(* As long as nothing has come between, a process that has started has in    *)
(* its memory what is on file, the panel up to the request under way, and    *)
(* one that makes up a path is alone.                                        *)
Loaded(p) == start[p] \in {"ready", "up"}

OnFile ==
  /\ \A p \in Processes : Loaded(p) => file.entry \in Entries
  /\ \A p \in Processes : Loaded(p) /\ ~(p = "panel" /\ Changing) => mem[p] = file
  /\ \A p \in Processes : start[p] = "save" =>
       file.entry = Wrong /\ \A q \in Processes \ {p} : start[q] = "down"
  /\ Awaited /\ update.at \in {"panel", "agent"} => mem["panel"] = With(file, update.new)
  /\ Up("panel") /\ ~Awaited => live = file

PanelInv == PanelTyped /\ Answering /\ (count.why = {} => OnFile)

-----------------------------------------------------------------------------

LEMMA WithTyped ==
  ASSUME NEW s \in Settings, NEW new \in Asked
  PROVE  With(s, new) \in Settings
BY DEF With, Settings, Asked

LEMMA LoadKeeps ==
  ASSUME PanelInv, NEW p \in Processes, Load(p)
  PROVE  PanelInv'
<1>1. PICK e \in Entries : /\ file.entry # Wrong => e = file.entry
                           /\ mem' = [mem EXCEPT ![p] = [file EXCEPT !.entry = e]]
  BY DEF Load
<1>2. PICK m : m = [file EXCEPT !.entry = e]
  OBVIOUS
<1>3. m \in Settings /\ m.entry = e /\ m.limit = file.limit
  BY <1>2 DEF PanelInv, PanelTyped, Settings
<1>4. /\ mem' \in [Processes -> Settings \cup {Off}] /\ mem'[p] = m
      /\ \A q \in Processes \ {p} : mem'[q] = mem[q]
  BY <1>1, <1>2, <1>3 DEF PanelInv, PanelTyped
<1>5. PICK r \in {"save", "ready"} : /\ start' = [start EXCEPT ![p] = r]
                                     /\ r = "save" <=> file.entry = Wrong
  BY DEF Load
<1>6. /\ start' \in [Processes -> {"down", "save", "ready", "up"}] /\ start'[p] = r
      /\ \A q \in Processes \ {p} : start'[q] = start[q]
  BY <1>5 DEF PanelInv, PanelTyped
<1>7. UNCHANGED <<file, live, update>> /\ start[p] = "down"
  BY DEF Load
<1>8. /\ count' \in Count
      /\ count'.why = {} => count.why = {}
      /\ count'.why = {} /\ r = "save" => \A q \in Processes \ {p} : start[q] = "down"
  <2>1. PICK w \in SUBSET Reasons :
          w = IF file.entry = Wrong /\ \E q \in Processes \ {p} : start[q] # "down"
                THEN count.why \cup {"raced"} ELSE count.why
    BY DEF PanelInv, PanelTyped, Count, Reasons
  <2>2. count' = [count EXCEPT !.starts = @ + 1, !.why = w]
    BY <2>1 DEF Load
  <2>3. count \in Count
    BY DEF PanelInv, PanelTyped
  <2>4. count' \in Count /\ count'.why = w
    <3>1. PICK n \in Nat : n = count.starts + 1
      BY <2>3 DEF Count
    <3>2. count' = [count EXCEPT !.starts = n, !.why = w]
      BY <2>2, <3>1
    <3>3. QED
      BY <2>3, <3>2 DEF Count
  <2>5. QED
    BY <2>1, <2>4, <1>5
<1>9. PanelTyped'
  BY <1>3, <1>4, <1>6, <1>7, <1>8 DEF PanelInv, PanelTyped
<1>10. Answering'
  BY <1>6, <1>7 DEF PanelInv, Answering, Up, Processes
<1>11. m = file \/ r = "save"
  BY <1>1, <1>2, <1>5 DEF PanelInv, PanelTyped
<1>12. ASSUME count'.why = {} PROVE OnFile'
  <2>1. OnFile
    BY <1>8, <1>12 DEF PanelInv
  <2>2. \A q \in Processes : Loaded(q)' => (q = p /\ r = "ready") \/ (q # p /\ Loaded(q))
    BY <1>6 DEF Loaded
  <2>3. \A q \in Processes : Loaded(q)' => file'.entry \in Entries
    BY <1>1, <1>5, <1>7, <2>1, <2>2 DEF OnFile, PanelInv, PanelTyped
  <2>4. (Awaited' <=> Awaited) /\ (Changing' <=> Changing)
    BY <1>7 DEF Awaited, Changing
  <2>5. \A q \in Processes : Loaded(q)' /\ ~(q = "panel" /\ Changing)' => mem'[q] = file'
    BY <1>4, <1>7, <1>11, <2>1, <2>2, <2>4 DEF OnFile
  <2>6. \A q \in Processes : start'[q] = "save" =>
          file'.entry = Wrong /\ \A o \in Processes \ {q} : start'[o] = "down"
    BY <1>5, <1>6, <1>7, <1>8, <1>12, <2>1 DEF OnFile
  <2>7. (Awaited /\ update.at \in {"panel", "agent"})' => mem'["panel"] = With(file', update'.new)
    BY <1>7, <1>4, <2>1, <2>4 DEF PanelInv, Answering, Awaited, Up, OnFile, Processes
  <2>8. (Up("panel") /\ ~Awaited)' => live' = file'
    BY <1>6, <1>7, <2>1, <2>4 DEF Up, Processes, OnFile
  <2>9. QED
    BY <2>3, <2>5, <2>6, <2>7, <2>8, <1>7 DEF OnFile, With
<1>13. QED
  BY <1>9, <1>10, <1>12 DEF PanelInv

(* What the others do to the count: it stays typed, and what has come between *)
(* is not forgotten.                                                          *)
Counted == count' \in Count /\ (count'.why = {} => count.why = {})

LEMMA TroubleCounted ==
  ASSUME PanelTyped, NEW w \in SUBSET Reasons, Trouble(w)
  PROVE  Counted /\ (count'.why = {} => w = {})
<1>1. PICK v \in SUBSET Reasons : v = count.why \cup w
  BY DEF PanelTyped, Count
<1>2. count' = [count EXCEPT !.troubles = @ + 1, !.why = v] /\ count \in Count
  BY <1>1 DEF PanelTyped, Trouble
<1>3. PICK n \in Nat : n = count.troubles + 1
  BY <1>2 DEF Count
<1>4. count' \in Count /\ count'.why = v
  BY <1>2, <1>3 DEF Count
<1>5. QED
  BY <1>1, <1>4 DEF Counted

LEMMA BlamedCounted ==
  ASSUME PanelTyped, NEW r \in Reasons, count' = [count EXCEPT !.why = @ \cup {r}]
  PROVE  Counted /\ count'.why # {}
BY DEF PanelTyped, Count, Counted

LEMMA SaveKeeps ==
  ASSUME PanelInv, NEW p \in Processes, SaveEntry(p)
  PROVE  PanelInv'
<1>1. /\ start' = [start EXCEPT ![p] = "ready"] /\ start[p] = "save"
      /\ UNCHANGED <<mem, live, update>>
  BY DEF SaveEntry, WriteBack
<1>2. /\ start' \in [Processes -> {"down", "save", "ready", "up"}] /\ start'[p] = "ready"
      /\ \A q \in Processes \ {p} : start'[q] = start[q]
  BY <1>1 DEF PanelInv, PanelTyped
<1>3. mem[p] \in Settings
  BY <1>1 DEF PanelInv, PanelTyped
<1>4. Counted /\ (count'.why = {} => file' = mem[p])
  BY TroubleCounted DEF Counted, PanelInv, PanelTyped, Reasons, SaveEntry, WriteBack
<1>5. file' \in [entry : Entries \cup {Wrong}, limit : Limits]
  BY <1>3 DEF SaveEntry, WriteBack, PanelInv, PanelTyped, Settings
<1>6. PanelTyped'
  BY <1>1, <1>2, <1>4, <1>5 DEF PanelInv, PanelTyped, Counted
<1>7. Answering'
  BY <1>1, <1>2 DEF PanelInv, Answering, Up, Processes
<1>8. ASSUME count'.why = {} PROVE OnFile'
  <2>1. OnFile /\ file' = mem[p] /\ \A q \in Processes \ {p} : start'[q] = "down"
    BY <1>1, <1>2, <1>4, <1>8 DEF PanelInv, OnFile, Counted
  <2>2. \A q \in Processes : start'[q] # "down" => q = p
    BY <2>1
  <2>3. ~Awaited'
    BY <1>1, <1>2, <2>1, <1>7 DEF Awaited, Answering, Up, Processes
  <2>4. ~Up("panel")'
    BY <1>2, <2>1 DEF Up, Processes
  <2>5. \A q \in Processes : Loaded(q)' => q = p
    BY <2>2 DEF Loaded
  <2>6. file'.entry \in Entries
    BY <1>3, <2>1 DEF Settings
  <2>7. \A q \in Processes : start'[q] # "save"
    BY <1>2, <2>1
  <2>8. QED
    BY <1>1, <2>1, <2>3, <2>4, <2>5, <2>6, <2>7 DEF OnFile
<1>9. QED
  BY <1>4, <1>6, <1>7, <1>8 DEF PanelInv

LEMMA ServeKeeps ==
  ASSUME PanelInv, NEW p \in Processes, Serve(p)
  PROVE  PanelInv'
<1>1. /\ start' = [start EXCEPT ![p] = "up"] /\ start[p] = "ready"
      /\ UNCHANGED <<file, mem, update, count>>
      /\ live' = IF p = "panel" THEN mem[p] ELSE live
  BY DEF Serve
<1>2. /\ start' \in [Processes -> {"down", "save", "ready", "up"}] /\ start'[p] = "up"
      /\ \A q \in Processes \ {p} : start'[q] = start[q]
  BY <1>1 DEF PanelInv, PanelTyped
<1>3. PanelTyped'
  BY <1>1, <1>2 DEF PanelInv, PanelTyped
<1>4. Answering'
  BY <1>1, <1>2 DEF PanelInv, Answering, Up, Processes
<1>5. ASSUME count'.why = {} PROVE OnFile'
  <2>1. OnFile
    BY <1>1, <1>5 DEF PanelInv
  <2>2. \A q \in Processes : (Loaded(q)' <=> Loaded(q)) /\ (start'[q] = "save" <=> start[q] = "save")
    BY <1>1, <1>2 DEF Loaded
  <2>3. \A q \in Processes : start'[q] = "down" <=> start[q] = "down"
    BY <1>1, <1>2
  <2>4. (Awaited' <=> Awaited) /\ (Changing' <=> Changing)
    BY <1>1 DEF Awaited, Changing
  <2>5. (Up("panel") /\ ~Awaited)' => live' = file'
    <3>1. CASE p = "panel"
      BY <1>1, <2>1, <3>1, <2>4 DEF OnFile, Loaded, Changing
    <3>2. CASE p # "panel"
      BY <1>1, <1>2, <2>1, <2>4, <3>2 DEF OnFile, Up, Processes
    <3>3. QED
      BY <3>1, <3>2
  <2>6. \A q \in Processes : start'[q] = "save" =>
          file'.entry = Wrong /\ \A o \in Processes \ {q} : start'[o] = "down"
    BY <1>1, <2>1, <2>2, <2>3 DEF OnFile
  <2>7. \A q \in Processes : Loaded(q)' => file'.entry \in Entries
    BY <1>1, <2>1, <2>2 DEF OnFile
  <2>8. \A q \in Processes : Loaded(q)' /\ ~(q = "panel" /\ Changing)' => mem'[q] = file'
    BY <1>1, <2>1, <2>2, <2>4 DEF OnFile
  <2>9. (Awaited /\ update.at \in {"panel", "agent"})' => mem'["panel"] = With(file', update'.new)
    BY <1>1, <2>1, <2>4 DEF OnFile
  <2>10. QED
    BY <1>1, <2>5, <2>6, <2>7, <2>8, <2>9 DEF OnFile, With
<1>6. QED
  BY <1>1, <1>3, <1>4, <1>5 DEF PanelInv

LEMMA StopKeeps ==
  ASSUME PanelInv, NEW p \in Processes, Stop(p)
  PROVE  PanelInv'
<1>1. /\ start' = [start EXCEPT ![p] = "down"] /\ mem' = [mem EXCEPT ![p] = Off]
      /\ start[p] # "down" /\ file' = file
  BY DEF Stop
<1>2. /\ start' \in [Processes -> {"down", "save", "ready", "up"}] /\ start'[p] = "down"
      /\ \A q \in Processes \ {p} : start'[q] = start[q]
  BY <1>1 DEF PanelInv, PanelTyped
<1>3. /\ mem' \in [Processes -> Settings \cup {Off}]
      /\ \A q \in Processes \ {p} : mem'[q] = mem[q]
  BY <1>1 DEF PanelInv, PanelTyped
<1>4. Counted
  BY TroubleCounted DEF Stop, PanelInv
<1>5. CASE p = "panel"
  <2>1. /\ update \in EntryRequest \cup {Off}
        /\ update' = IF update = Off \/ update.at = "panel" THEN Off ELSE [update EXCEPT !.left = TRUE]
    BY <1>5 DEF Stop, PanelInv, PanelTyped
  <2>2. \/ update' = Off
        \/ update # Off /\ update' \in EntryRequest /\ update'.left /\ update'.at = update.at /\ update.at # "panel"
    BY <2>1 DEF EntryRequest
  <2>3. update' \in EntryRequest \cup {Off}
    BY <2>2
  <2>4. ~Awaited' /\ ~Up("panel")'
    BY <1>2, <1>5, <2>2 DEF Awaited, Up
  <2>5. Answering'
    BY <1>2, <1>5, <2>2 DEF PanelInv, Answering, Up, Processes
  <2>6. PanelTyped'
    BY <1>1, <1>2, <1>3, <1>4, <2>3 DEF PanelInv, PanelTyped, Counted
  <2>7. ASSUME count'.why = {} PROVE OnFile'
    <3>1. OnFile
      BY <1>4, <2>7 DEF PanelInv, Counted
    <3>2. \A q \in Processes : start'[q] # "down" => q # p /\ start'[q] = start[q] /\ mem'[q] = mem[q]
      BY <1>2, <1>3
    <3>3. \A q \in Processes : start[q] = "down" => start'[q] = "down"
      BY <1>2
    <3>4. \A q \in Processes : Loaded(q)' => q # "panel" /\ Loaded(q) /\ mem'[q] = mem[q]
      BY <3>2, <1>5 DEF Loaded
    <3>5. QED
      BY <1>1, <2>4, <3>1, <3>2, <3>3, <3>4 DEF OnFile
  <2>8. QED
    BY <1>4, <2>5, <2>6, <2>7 DEF PanelInv
<1>6. CASE p = "agent"
  <2>1. /\ update \in EntryRequest \cup {Off} /\ live' = live
        /\ update' = IF update # Off /\ update.at = "agent" THEN [update EXCEPT !.at = "failed"] ELSE update
    BY <1>6 DEF Stop, PanelInv, PanelTyped
  <2>2. \/ update' = update /\ (update # Off => update.at # "agent")
        \/ /\ update # Off /\ update' \in EntryRequest /\ update'.left = update.left /\ update'.at = "failed"
           /\ update.at = "agent"
    BY <2>1 DEF EntryRequest
  <2>3. update' \in EntryRequest \cup {Off}
    BY <2>1, <2>2
  <2>4. /\ update' # Off <=> update # Off
        /\ Awaited' <=> Awaited
        /\ Changing' <=> Changing
        /\ Up("panel")' <=> Up("panel")
    BY <1>2, <1>6, <2>2, EntriesAssumption DEF Awaited, Changing, Up, Processes, EntryRequest, Asked
  <2>5. Answering'
    BY <2>2, <2>4 DEF PanelInv, Answering
  <2>6. PanelTyped'
    BY <1>1, <1>2, <1>3, <1>4, <2>3 DEF PanelInv, PanelTyped, Counted
  <2>7. ASSUME count'.why = {} PROVE OnFile'
    <3>1. OnFile
      BY <1>4, <2>7 DEF PanelInv, Counted
    <3>2. \A q \in Processes : start'[q] # "down" => q # p /\ start'[q] = start[q] /\ mem'[q] = mem[q]
      BY <1>2, <1>3
    <3>3. \A q \in Processes : start[q] = "down" => start'[q] = "down"
      BY <1>2
    <3>4. \A q \in Processes : Loaded(q)' => q # "agent" /\ Loaded(q) /\ mem'[q] = mem[q]
      BY <3>2, <1>6 DEF Loaded
    <3>5. (Awaited /\ update.at \in {"panel", "agent"})' => mem'["panel"] = With(file', update'.new)
      BY <1>3, <1>6, <2>2, <1>1, <2>4, <3>1 DEF Processes, OnFile
    <3>6. \A q \in Processes : Loaded(q)' /\ ~(q = "panel" /\ Changing)' => mem'[q] = file'
      BY <1>1, <2>4, <3>1, <3>4 DEF OnFile
    <3>7. \A q \in Processes : start'[q] = "save" =>
            file'.entry = Wrong /\ \A o \in Processes \ {q} : start'[o] = "down"
      BY <1>1, <3>1, <3>2, <3>3 DEF OnFile
    <3>8. (Up("panel") /\ ~Awaited)' => live' = file'
      BY <1>1, <2>1, <2>4, <3>1 DEF OnFile
    <3>9. QED
      BY <1>1, <3>1, <3>4, <3>5, <3>6, <3>7, <3>8 DEF OnFile, With
  <2>8. QED
    BY <1>4, <2>5, <2>6, <2>7 DEF PanelInv
<1>7. QED
  BY <1>5, <1>6 DEF Processes

(* An update, or half of one, in the panel's memory.                         *)
LEMMA MemoryChanged ==
  ASSUME PanelTyped, NEW p \in Processes, NEW m \in Settings, mem' = [mem EXCEPT ![p] = m],
         start[p] # "down", start' = start
  PROVE  /\ mem' \in [Processes -> Settings \cup {Off}] /\ mem'[p] = m
         /\ \A q \in Processes \ {p} : mem'[q] = mem[q]
         /\ \A q \in Processes : start'[q] # "down" => mem'[q] \in Settings
BY DEF PanelTyped

LEMMA UpdateKeeps ==
  ASSUME PanelInv, Update
  PROVE  PanelInv'
<1>1. PICK new \in Asked : /\ mem' = [mem EXCEPT !["panel"] = With(@, new)]
                           /\ update' = [new |-> new, at |-> "panel", left |-> FALSE]
  BY DEF Update, Asked
<1>2. Up("panel") /\ update = Off /\ UNCHANGED <<file, start, live>> /\ "panel" \in Processes
  BY DEF Update, Processes
<1>3. PICK m \in Settings : m = With(mem["panel"], new)
  BY <1>2, WithTyped DEF PanelInv, PanelTyped, Up
<1>4. /\ mem' \in [Processes -> Settings \cup {Off}] /\ mem'["panel"] = m
      /\ \A q \in Processes \ {"panel"} : mem'[q] = mem[q]
      /\ \A q \in Processes : start'[q] # "down" => mem'[q] \in Settings
  BY <1>1, <1>2, <1>3, MemoryChanged DEF PanelInv, Up
<1>5. update' \in EntryRequest /\ update'.new = new /\ update'.at = "panel" /\ ~update'.left
  BY <1>1 DEF EntryRequest
<1>6. update' # Off
  BY <1>5, EntriesAssumption DEF EntryRequest, Asked
<1>7. count' = [count EXCEPT !.changes = @ + 1] /\ count \in Count
  BY DEF Update, PanelInv, PanelTyped
<1>8. count' \in Count /\ count'.why = count.why
  BY <1>7 DEF Count
<1>9. PanelTyped'
  BY <1>2, <1>4, <1>5, <1>8 DEF PanelInv, PanelTyped
<1>10. Answering'
  BY <1>2, <1>5 DEF Answering, Up
<1>11. ASSUME count'.why = {} PROVE OnFile'
  <2>1. OnFile
    BY <1>8, <1>11 DEF PanelInv
  <2>2. m = With(file, new)
    BY <1>2, <1>3, <2>1 DEF OnFile, Loaded, Up, Changing, Awaited
  <2>3. Awaited' /\ Changing'
    BY <1>5, <1>6 DEF Awaited, Changing
  <2>4. \A q \in Processes : Loaded(q)' /\ ~(q = "panel" /\ Changing)' => mem'[q] = file'
    BY <1>2, <1>4, <2>1, <2>3 DEF OnFile, Loaded
  <2>5. \A q \in Processes : (Loaded(q)' <=> Loaded(q)) /\ start'[q] = start[q]
    BY <1>2 DEF Loaded
  <2>6. (Awaited /\ update.at \in {"panel", "agent"})' => mem'["panel"] = With(file', update'.new)
    BY <1>2, <1>4, <1>5, <2>2
  <2>7. QED
    BY <1>2, <2>1, <2>3, <2>4, <2>5, <2>6 DEF OnFile, With
<1>12. QED
  BY <1>9, <1>10, <1>11 DEF PanelInv

LEMMA UpdateRefusedKeeps ==
  ASSUME PanelInv, UpdateRefused
  PROVE  PanelInv'
<1>1. PICK e \in Entries : mem' = [mem EXCEPT !["panel"].entry = e]
  BY DEF UpdateRefused
<1>2. Up("panel") /\ UNCHANGED <<file, start, live, update>> /\ "panel" \in Processes
  BY DEF UpdateRefused, Processes
<1>3. PICK m \in Settings : m = [mem["panel"] EXCEPT !.entry = e]
  BY <1>2 DEF PanelInv, PanelTyped, Up, Settings
<1>4. /\ mem' \in [Processes -> Settings \cup {Off}]
      /\ \A q \in Processes : start'[q] # "down" => mem'[q] \in Settings
  BY <1>1, <1>2, <1>3, MemoryChanged DEF PanelInv, Up
<1>5. PICK w \in SUBSET Reasons : w = count.why \cup {"refused"}
  BY DEF PanelInv, PanelTyped, Count, Reasons
<1>6. count' = [count EXCEPT !.changes = @ + 1, !.why = w] /\ count \in Count
  BY <1>5 DEF UpdateRefused, PanelInv, PanelTyped
<1>8. count' \in Count /\ count'.why = w
  <2>1. PICK n \in Nat : n = count.changes + 1
    BY <1>6 DEF Count
  <2>2. count' = [count EXCEPT !.changes = n, !.why = w]
    BY <1>6, <2>1
  <2>3. QED
    BY <1>6, <2>2 DEF Count
<1>9. PanelTyped'
  BY <1>2, <1>4, <1>8 DEF PanelInv, PanelTyped
<1>10. Answering'
  BY <1>2 DEF PanelInv, Answering, Up
<1>11. QED
  BY <1>5, <1>8, <1>9, <1>10 DEF PanelInv

(* A step that leaves the file, the memories and what is live alone, and     *)
(* takes the request further without settling it.                            *)
LEMMA OnwardKeeps ==
  ASSUME PanelInv, UNCHANGED <<file, mem, start, live>>, Counted, update' \in EntryRequest \cup {Off},
         update # Off, update' # Off, update'.left = update.left, update'.new = update.new,
         update.at # "ok", update'.at # "ok", update'.at = "panel" => update.at = "panel",
         update'.at = "agent" => Up("agent") /\ update.at \in {"panel", "agent"}
  PROVE  PanelInv'
<1>1. PanelTyped'
  BY DEF PanelInv, PanelTyped, Counted
<1>2. Answering'
  BY DEF PanelInv, Answering, Up
<1>3. (Awaited' <=> Awaited) /\ (Changing' <=> Changing)
  BY DEF Awaited, Changing
<1>4. ASSUME count'.why = {} PROVE OnFile'
  BY <1>4, <1>3 DEF Counted, PanelInv, Loaded, Up, OnFile, With
<1>5. QED
  BY <1>1, <1>2, <1>4 DEF PanelInv

(* A request that fails says so.                                             *)
LEMMA DroppedKeeps ==
  ASSUME PanelInv, UNCHANGED <<file, start, live>>, count' \in Count, count'.why # {}, update' = Off,
         mem' \in [Processes -> Settings \cup {Off}],
         \A q \in Processes : start'[q] # "down" => mem'[q] \in Settings
  PROVE  PanelInv'
BY DEF PanelInv, PanelTyped, Answering

LEMMA CallAgentKeeps ==
  ASSUME PanelInv, CallAgent
  PROVE  PanelInv'
<1>1. update \in EntryRequest /\ update.at = "panel" /\ update # Off /\ UNCHANGED <<file, mem, start, live>>
  BY DEF CallAgent, PanelInv, PanelTyped
<1>2. CASE Up("agent") /\ update' = [update EXCEPT !.at = "agent"] /\ count' = count
  BY <1>1, <1>2, EntriesAssumption, OnwardKeeps DEF EntryRequest, Asked, Counted, PanelInv,
     PanelTyped
<1>3. CASE update' = Off /\ count' = [count EXCEPT !.why = @ \cup {"failed"}]
  BY <1>3, BlamedCounted, <1>1, DroppedKeeps DEF PanelInv, Reasons, Counted, PanelTyped
<1>4. QED
  BY <1>2, <1>3 DEF CallAgent

LEMMA WriteFieldsKeeps ==
  ASSUME PanelInv, WriteFields
  PROVE  PanelInv'
<1>1. /\ update \in EntryRequest /\ update # Off /\ update.at = "agent" /\ Up("agent")
      /\ UNCHANGED <<start, live>> /\ "agent" \in Processes
  BY DEF WriteFields, PanelInv, PanelTyped, Processes
<1>2. PICK m \in Settings : m = With(mem["agent"], update.new)
  BY <1>1, WithTyped DEF PanelInv, PanelTyped, Up, EntryRequest
<1>3. mem' = [mem EXCEPT !["agent"] = m] /\ file' = m
  BY <1>2 DEF WriteFields
<1>4. /\ mem' \in [Processes -> Settings \cup {Off}] /\ mem'["agent"] = m
      /\ \A q \in Processes \ {"agent"} : mem'[q] = mem[q]
      /\ \A q \in Processes : start'[q] # "down" => mem'[q] \in Settings
  BY <1>1, <1>2, <1>3, MemoryChanged DEF PanelInv, Up
<1>5. \/ update.left /\ update' = Off
      \/ ~update.left /\ update' = [update EXCEPT !.at = "ok"]
  BY DEF WriteFields
<1>6. \/ update.left /\ update' = Off
      \/ ~update.left /\ update' \in EntryRequest /\ update'.at = "ok" /\ ~update'.left
  BY <1>1, <1>5 DEF EntryRequest
<1>7. Counted /\ (count'.why = {} /\ update.left => start["panel"] = "down")
  <2>1. CASE update.left /\ start["panel"] # "down"
    BY <2>1, BlamedCounted DEF WriteFields, PanelInv, Reasons
  <2>2. CASE ~(update.left /\ start["panel"] # "down")
    BY <2>2 DEF WriteFields, Counted, PanelInv, PanelTyped
  <2>3. QED
    BY <2>1, <2>2
<1>8. PanelTyped'
  BY <1>1, <1>2, <1>3, <1>4, <1>6, <1>7 DEF PanelInv, PanelTyped, Settings, Counted
<1>9. Answering'
  BY <1>1, <1>6 DEF PanelInv, Answering, Up
<1>10. ASSUME count'.why = {} PROVE OnFile'
  <2>1. OnFile /\ (update.left => start["panel"] = "down")
    BY <1>7, <1>10 DEF PanelInv, Counted
  <2>2. mem["agent"] = file
    BY <1>1, <2>1 DEF OnFile, Loaded, Up
  <2>3. ~update.left => mem["panel"] = m
    BY <1>1, <1>2, <2>1, <2>2 DEF OnFile, Awaited
  <2>4. \A q \in Processes : Loaded(q)' => mem'[q] = file'
    BY <1>1, <1>3, <1>4, <2>1, <2>3 DEF Loaded, Processes
  <2>5. \A q \in Processes : start'[q] # "save"
    BY <1>1, <2>1 DEF OnFile, Up, Processes
  <2>6. ~(Up("panel") /\ ~Awaited)'
    <3>1. CASE update.left
      BY <1>1, <2>1, <3>1 DEF Up
    <3>2. CASE ~update.left
      BY <1>6, <3>2, EntriesAssumption DEF EntryRequest, Asked, Awaited
    <3>3. QED
      BY <3>1, <3>2
  <2>7. \A q \in Processes : Loaded(q)' => file'.entry \in Entries
    BY <1>2, <1>3 DEF Settings
  <2>8. ~(Awaited /\ update.at \in {"panel", "agent"})'
    BY <1>6 DEF Awaited
  <2>9. QED
    BY <2>4, <2>5, <2>6, <2>7, <2>8 DEF OnFile
<1>11. QED
  BY <1>7, <1>8, <1>9, <1>10 DEF PanelInv

LEMMA WriteFailsKeeps ==
  ASSUME PanelInv, WriteFails
  PROVE  PanelInv'
<1>1. /\ update \in EntryRequest /\ update # Off /\ update.at = "agent" /\ Up("agent")
      /\ UNCHANGED <<file, start, live>> /\ "agent" \in Processes
  BY DEF WriteFails, PanelInv, PanelTyped, Processes
<1>2. PICK m \in Settings : m = With(mem["agent"], update.new)
  BY <1>1, WithTyped DEF PanelInv, PanelTyped, Up, EntryRequest
<1>3. mem' = [mem EXCEPT !["agent"] = m]
  BY <1>2 DEF WriteFails
<1>4. /\ mem' \in [Processes -> Settings \cup {Off}]
      /\ \A q \in Processes : start'[q] # "down" => mem'[q] \in Settings
  BY <1>1, <1>2, <1>3, MemoryChanged DEF PanelInv, Up
<1>5. Counted /\ count'.why # {}
  BY TroubleCounted DEF WriteFails, PanelInv, Reasons
<1>6. \/ update' = Off
      \/ update' \in EntryRequest /\ update'.at = "failed" /\ update'.left = update.left
  BY <1>1 DEF WriteFails, EntryRequest
<1>7. PanelTyped'
  BY <1>1, <1>4, <1>5, <1>6 DEF PanelInv, PanelTyped, Counted
<1>8. Answering'
  BY <1>1, <1>6 DEF PanelInv, Answering, Up
<1>9. QED
  BY <1>5, <1>7, <1>8 DEF PanelInv

LEMMA GoLiveKeeps ==
  ASSUME PanelInv, GoLive
  PROVE  PanelInv'
<1>1. /\ live' = mem["panel"] /\ update' = Off /\ update # Off /\ update.at = "ok" /\ ~update.left
      /\ UNCHANGED <<file, mem, start, count>>
  BY DEF GoLive
<1>2. PanelTyped'
  BY <1>1 DEF PanelInv, PanelTyped
<1>3. Answering'
  BY <1>1 DEF Answering
<1>4. ASSUME count'.why = {} PROVE OnFile'
  BY <1>1, <1>4 DEF PanelInv, Answering, Processes, OnFile, Loaded, Up, Changing, Awaited
<1>5. QED
  BY <1>1, <1>2, <1>3, <1>4 DEF PanelInv

LEMMA UpdateFailsKeeps ==
  ASSUME PanelInv, UpdateFails
  PROVE  PanelInv'
<1>1. update # Off /\ update' = Off /\ UNCHANGED <<file, mem, start, live>>
  BY DEF UpdateFails
<1>2. CASE count' = [count EXCEPT !.why = @ \cup {"failed"}]
  BY <1>2, BlamedCounted, <1>1, DroppedKeeps DEF PanelInv, Reasons, Counted, PanelTyped
<1>3. CASE Trouble({"failed"})
  BY <1>3, TroubleCounted, <1>1, DroppedKeeps DEF PanelInv, Reasons, Counted, PanelTyped
<1>4. CASE update.at = "ok" /\ update.left /\ count' = count
  <2>1. PanelTyped'
    BY <1>1, <1>4 DEF PanelInv, PanelTyped
  <2>2. Answering'
    BY <1>1 DEF Answering
  <2>3. ASSUME count'.why = {} PROVE OnFile'
    BY <1>4, <2>3, <1>1 DEF PanelInv, Awaited, Changing, Loaded, Up, OnFile
  <2>4. QED
    BY <2>1, <2>2, <2>3 DEF PanelInv
<1>5. QED
  BY <1>2, <1>3, <1>4 DEF UpdateFails

LEMMA PersistKeeps ==
  ASSUME PanelInv, Persist
  PROVE  PanelInv'
<1>1. Up("agent") /\ mem["agent"] # file /\ file' = mem["agent"] /\ UNCHANGED <<mem, start, live, update, count>>
  BY DEF Persist, WriteBack
<1>2. mem["agent"] \in Settings /\ "agent" \in Processes
  BY <1>1 DEF PanelInv, PanelTyped, Up, Processes
<1>3. PanelTyped'
  BY <1>1, <1>2 DEF PanelInv, PanelTyped, Settings
<1>4. Answering'
  BY <1>1 DEF PanelInv, Answering, Up
<1>5. count.why # {}
  BY <1>1, <1>2 DEF PanelInv, OnFile, Loaded, Up
<1>6. QED
  BY <1>1, <1>3, <1>4, <1>5 DEF PanelInv

LEMMA EditFileKeeps ==
  ASSUME PanelInv, EditFile
  PROVE  PanelInv'
<1>1. PICK e \in Entries \cup {Wrong} : file' = [file EXCEPT !.entry = e]
  BY DEF EditFile
<1>2. UNCHANGED <<mem, start, live, update>>
  BY DEF EditFile
<1>3. PICK w \in SUBSET Reasons :
        w = IF \E p \in Processes : start[p] # "down" THEN count.why \cup {"edited"} ELSE count.why
  BY DEF PanelInv, PanelTyped, Count, Reasons
<1>4. count' = [count EXCEPT !.changes = @ + 1, !.why = w] /\ count \in Count
  BY <1>3 DEF EditFile, PanelInv, PanelTyped
<1>6. count' \in Count /\ count'.why = w
  <2>1. PICK n \in Nat : n = count.changes + 1
    BY <1>4 DEF Count
  <2>2. count' = [count EXCEPT !.changes = n, !.why = w]
    BY <1>4, <2>1
  <2>3. QED
    BY <1>4, <2>2 DEF Count
<1>7. file' \in [entry : Entries \cup {Wrong}, limit : Limits]
  BY <1>1 DEF PanelInv, PanelTyped
<1>8. PanelTyped'
  BY <1>2, <1>6, <1>7 DEF PanelInv, PanelTyped
<1>9. Answering'
  BY <1>2 DEF PanelInv, Answering, Up
<1>10. ASSUME count'.why = {} PROVE OnFile'
  BY <1>2, <1>3, <1>6, <1>10, <1>9 DEF Answering, Awaited, Up, Processes, OnFile, Loaded
<1>11. QED
  BY <1>8, <1>9, <1>10 DEF PanelInv

(* The configuration's types, who answers for a request, and what the memory *)
(* of each process has to do with the file.                                  *)
THEOREM PanelInvariant == PanelSpec => []PanelInv
<1>1. PanelInit => PanelInv
  BY DEF PanelInit, PanelInv, PanelTyped, Answering, OnFile, Loaded, Up, Awaited, Count, Processes
<1>2. ASSUME PanelInv, [PanelNext]_panelVars PROVE PanelInv'
  <2>1. ASSUME NEW p \in Processes, Load(p) \/ SaveEntry(p) \/ Serve(p) \/ Stop(p) PROVE PanelInv'
    BY <1>2, <2>1, LoadKeeps, SaveKeeps, ServeKeeps, StopKeeps
  <2>2. CASE Update \/ UpdateRefused \/ CallAgent \/ WriteFields \/ WriteFails \/ GoLive \/ UpdateFails
             \/ Persist \/ EditFile
    BY <1>2, <2>2, UpdateKeeps, UpdateRefusedKeeps, CallAgentKeeps, WriteFieldsKeeps, WriteFailsKeeps,
       GoLiveKeeps, UpdateFailsKeeps, PersistKeeps, EditFileKeeps
  <2>3. CASE UNCHANGED panelVars
    <3>1. UNCHANGED <<file, mem, start, live, update, count>>
      BY <2>3 DEF panelVars
    <3>2. PanelTyped' /\ Answering'
      BY <1>2, <3>1 DEF PanelInv, PanelTyped, Answering, Up
    <3>3. OnFile => OnFile'
      BY <3>1 DEF OnFile, Loaded, Up, Changing, Awaited, With
    <3>4. QED
      BY <1>2, <3>1, <3>2, <3>3 DEF PanelInv
  <2>4. QED
    BY <1>2, <2>1, <2>2, <2>3 DEF PanelNext
<1>3. QED
  BY <1>1, <1>2, PTL DEF PanelSpec

(* The path by which the panel lets in, and its limits, are those on file,   *)
(* unless an update failed, was refused halfway or came late, a made-up path *)
(* was not saved or made up twice, or the file was edited under a process    *)
(* that runs (app.LoadConfig, settings.UpdateSecuritySettings).              *)
THEOREM EntryStaysOnFile == PanelSpec => []EntryIsOnFile
<1>1. PanelInv => EntryIsOnFile
  BY DEF PanelInv, OnFile, EntryIsOnFile, Awaited
<1>2. QED
  BY <1>1, PanelInvariant, PTL

-----------------------------------------------------------------------------
(* LogAnalysis: every line is counted once.                                  *)

Cursor == [inode : Inodes \cup {Nil}, offset : Nat, size : Nat]
Scan == [pc : {"create", "cursor", "read", "save", "release"}, job : Nat, cursor : Cursor,
         range : SUBSET Nat, rotated : BOOLEAN, lines : Seq(Written), older : SUBSET Written]
Tally == [scans : Nat, cuts : Nat, breaks : Nat, passed : SUBSET Written, again : BOOLEAN]

LogTyped ==
  /\ today \in Nat \ {0} /\ day \in [Written -> Nat]
  /\ content \in [Inodes -> Seq(Written)]
  /\ active \in Inodes \cup {Nil} /\ handle \in Inodes /\ rotated \subseteq Inodes
  /\ cursor \in Cursor /\ running \in Scanners \cup {Nil}
  /\ scan \in [Scanners -> Scan \cup {Nil}]
  /\ counted \in [Written -> Nat]
  /\ tally \in Tally

(* A line is in one place of one file, once it is written.                   *)
Places ==
  /\ \A i \in Inodes, k \in Nat : k \in 1..Len(content[i]) => day[content[i][k]] # 0
  /\ \A i, j \in Inodes, k, m \in Nat :
       /\ k \in 1..Len(content[i]) /\ m \in 1..Len(content[j]) /\ content[i][k] = content[j][m]
       => i = j /\ k = m
  /\ cut = "renamed" => active = Nil
  /\ active # Nil => handle = active
  /\ \A l \in Written : day[l] = 0 => counted[l] = 0

(* One scan at a time: what it has read of the cursor is the cursor.         *)
Alone ==
  \A s \in Scanners : scan[s] # Nil =>
    /\ running = s
    /\ scan[s].pc = "read" => scan[s].cursor = cursor
    /\ scan[s].pc \in {"create", "cursor", "read"} => scan[s].lines = << >>
    /\ \A l \in Lines(s) \cup scan[s].older : day[l] # 0

(* A cursor is of a file that has what is before it, and those lines are     *)
(* dealt with; the lines of the log that are not before it are not.          *)
Within(c) ==
  IF c.inode = Nil THEN c.offset = 0
  ELSE c.offset <= Len(content[c.inode]) /\ c.size <= Len(content[c.inode])

Dealt(c, lines) ==
  c.inode # Nil => \A k \in 1..c.offset :
    \/ content[c.inode][k] \in tally.passed \cup lines
    \/ counted[content[c.inode][k]] = 1

Untouched(c, lines) ==
  active # Nil => \A k \in 1..Len(content[active]) :
    \/ c.inode = active /\ k <= c.offset
    \/ content[active][k] \notin lines /\ counted[content[active][k]] = 0

Follows(c, lines) == Within(c) /\ Dealt(c, lines) /\ Untouched(c, lines)

(* As long as no rotated file is read and no inode comes back.               *)
Counting ==
  /\ \A l \in Written : counted[l] <= 1
  /\ Follows(cursor, {})
  /\ \A s \in Scanners : ScanAt(s, "save") =>
       /\ Follows(scan[s].cursor, Lines(s))
       /\ \A l \in Lines(s) : counted[l] = 0

LogInv == LogTyped /\ Places /\ Alone /\ (~tally.again => Counting)

-----------------------------------------------------------------------------

LEMMA ScanTyped ==
  ASSUME LogTyped, NEW s \in Scanners, scan[s] # Nil
  PROVE  scan[s] \in Scan /\ scan[s].cursor \in Cursor /\ Lines(s) \subseteq Written
BY DEF LogTyped, Scan, Lines

(* Steps that move no line and count none.                                   *)
LEMMA FollowsStill ==
  ASSUME NEW c, NEW lines, UNCHANGED <<content, active, counted>>, tally'.passed = tally.passed,
         Follows(c, lines)
  PROVE  Follows(c, lines)'
BY DEF Follows, Within, Dealt, Untouched

(* The file that lost its name is as it was.                                 *)
LEMMA FollowsRenamed ==
  ASSUME NEW c, NEW lines, UNCHANGED <<content, counted>>, tally'.passed = tally.passed, active' = Nil,
         Follows(c, lines)
  PROVE  Follows(c, lines)'
BY DEF Follows, Within, Dealt, Untouched

LEMMA FollowsReopened ==
  ASSUME LogTyped, NEW c \in Cursor, NEW lines, NEW i \in Inodes, c.inode # i,
         content' = [content EXCEPT ![i] = << >>], active' = i, counted' = counted,
         tally'.passed = tally.passed, Follows(c, lines)
  PROVE  Follows(c, lines)'
BY DEF LogTyped, Follows, Within, Dealt, Cursor, Untouched

LEMMA Appended ==
  ASSUME LogInv, NEW l \in Written, WriteLine(l)
  PROVE  /\ day[l] = 0 /\ day'[l] # 0 /\ \A k \in Written : day[k] # 0 => day'[k] # 0
         /\ day' \in [Written -> Nat]
         /\ content' \in [Inodes -> Seq(Written)]
         /\ \A i \in Inodes : Len(content[i]) <= Len(content'[i])
         /\ \A i \in Inodes, k \in Nat : k \in 1..Len(content[i]) =>
              k \in 1..Len(content'[i]) /\ content'[i][k] = content[i][k]
         /\ \A i \in Inodes, k \in Nat : k \in 1..Len(content'[i]) /\ k \notin 1..Len(content[i]) =>
              i = handle /\ k = Len(content[i]) + 1 /\ content'[i][k] = l
BY DEF WriteLine, Written, LogInv, LogTyped

LEMMA FollowsAppended ==
  ASSUME LogInv, NEW l \in Written, WriteLine(l), NEW c \in Cursor, NEW lines, l \notin lines,
         Follows(c, lines)
  PROVE  Follows(c, lines)'
<1>1. UNCHANGED <<active, counted, tally>>
  BY DEF WriteLine, logTables
<1>2. counted[l] = 0
  BY Appended DEF LogInv, Places
<1>3. Within(c)'
  BY Appended DEF Cursor, LogInv, LogTyped, Follows, Within
<1>4. Dealt(c, lines)'
  <2>1. \A k \in 1..c.offset : c.inode # Nil => content'[c.inode][k] = content[c.inode][k]
    BY Appended DEF Follows, Within, Cursor, LogInv, LogTyped
  <2>2. QED
    BY <1>1, <2>1 DEF Follows, Dealt
<1>5. Untouched(c, lines)'
  <2>1. SUFFICES ASSUME active # Nil, NEW k \in 1..Len(content'[active])
                 PROVE  \/ c.inode = active /\ k <= c.offset
                        \/ content'[active][k] \notin lines /\ counted[content'[active][k]] = 0
    BY <1>1 DEF Untouched
  <2>2. active \in Inodes /\ k \in Nat
    BY <2>1, Appended DEF LogInv, LogTyped
  <2>3. CASE k \in 1..Len(content[active])
    BY <2>2, <2>3, Appended, <2>1 DEF Follows, Untouched
  <2>4. CASE k \notin 1..Len(content[active])
    BY <2>1, <2>2, <2>4, Appended, <1>2
  <2>5. QED
    BY <2>3, <2>4
<1>6. QED
  BY <1>3, <1>4, <1>5 DEF Follows

(* A step of nginx or of the rotation: every cursor in use follows it, with   *)
(* lines that are written.                                                   *)
InUse(c) == c = cursor \/ \E s \in Scanners : scan[s] # Nil /\ scan[s].cursor = c
InUseOf(i) == cursor.inode = i \/ \E s \in Scanners : scan[s] # Nil /\ scan[s].cursor.inode = i
Followed ==
  \A c \in Cursor : \A lines : InUse(c) /\ (\A l \in lines : l \in Written /\ day[l] # 0) /\ Follows(c, lines)
    => Follows(c, lines)'

LEMMA FilesMove ==
  ASSUME LogInv, UNCHANGED <<logTables, running, scan>>, LogTyped', Places',
         \A l \in Written : day[l] # 0 => day'[l] # 0,
         ~tally'.again => ~tally.again /\ Followed
  PROVE  LogInv'
<1>1. UNCHANGED <<cursor, counted, running, scan>>
  BY DEF logTables
<1>2. \A s \in Scanners : scan[s] # Nil =>
        /\ scan[s].cursor \in Cursor /\ Lines(s) \subseteq Written /\ Lines(s)' = Lines(s)
        /\ \A l \in Lines(s) \cup scan[s].older : l \in Written /\ day[l] # 0
  BY <1>1, ScanTyped DEF LogInv, Alone, Lines, Scan
<1>3. Alone'
  BY <1>1, <1>2 DEF LogInv, Alone
<1>4. ASSUME ~tally'.again PROVE Counting'
  <2>1. Counting /\ Followed
    BY <1>4 DEF LogInv
  <2>2. Follows(cursor, {})'
    BY <2>1, <1>1 DEF Counting, LogInv, LogTyped, InUse, Followed
  <2>3. ASSUME NEW s \in Scanners, ScanAt(s, "save")'
        PROVE  Follows(scan[s].cursor, Lines(s))' /\ \A l \in Lines(s)' : counted'[l] = 0
    BY <1>1, <2>3, <2>1, <1>2 DEF ScanAt, Counting, InUse, Followed
  <2>4. QED
    BY <1>1, <2>1, <2>2, <2>3 DEF Counting
<1>5. QED
  BY <1>3, <1>4 DEF LogInv

LEMMA WriteLineKeeps ==
  ASSUME LogInv, NEW l \in Written, WriteLine(l)
  PROVE  LogInv'
<1>1. UNCHANGED <<today, active, rotated, handle, cut, logTables, cursor, counted, jobs, running, scan, tally>>
  BY DEF WriteLine, logTables
<1>2. LogTyped'
  BY <1>1, Appended DEF LogInv, LogTyped
<1>3. \A i \in Inodes : Len(content[i]) \in Nat /\ Len(content'[i]) \in Nat /\ content[i] \in Seq(Written)
  BY Appended DEF LogInv, LogTyped
<1>4. \A i \in Inodes, k \in Nat : k \in 1..Len(content[i]) => content[i][k] \in Written /\ content[i][k] # l
  BY <1>3, Appended DEF LogInv, Places
<1>5. ASSUME NEW i \in Inodes, NEW k \in Nat, k \in 1..Len(content'[i]) PROVE day'[content'[i][k]] # 0
  <2>1. CASE k \in 1..Len(content[i])
    <3>1. content'[i][k] = content[i][k] /\ day[content[i][k]] # 0 /\ content[i][k] \in Written
      BY <1>4, <2>1, Appended DEF LogInv, Places
    <3>2. QED
      BY <3>1, Appended
  <2>2. CASE k \notin 1..Len(content[i])
    BY <1>5, <2>2, Appended
  <2>3. QED
    BY <2>1, <2>2
<1>6. ASSUME NEW i \in Inodes, NEW j \in Inodes, NEW k \in Nat, NEW m \in Nat,
             k \in 1..Len(content'[i]), m \in 1..Len(content'[j]), content'[i][k] = content'[j][m]
      PROVE  i = j /\ k = m
  <2>1. CASE k \in 1..Len(content[i]) /\ m \in 1..Len(content[j])
    <3>1. content[i][k] = content[j][m]
      BY <1>6, <2>1, Appended
    <3>2. QED
      BY <2>1, <3>1 DEF LogInv, Places
  <2>2. CASE k \in 1..Len(content[i]) /\ m \notin 1..Len(content[j])
    <3>1. content'[i][k] = content[i][k] /\ content[i][k] # l
      BY <1>4, <2>2, Appended
    <3>2. content'[j][m] = l
      BY <1>6, <2>2, Appended
    <3>3. QED
      BY <1>6, <3>1, <3>2
  <2>3. CASE k \notin 1..Len(content[i]) /\ m \in 1..Len(content[j])
    <3>1. content'[j][m] = content[j][m] /\ content[j][m] # l
      BY <1>4, <2>3, Appended
    <3>2. content'[i][k] = l
      BY <1>6, <2>3, Appended
    <3>3. QED
      BY <1>6, <3>1, <3>2
  <2>4. CASE k \notin 1..Len(content[i]) /\ m \notin 1..Len(content[j])
    BY <1>6, <2>4, Appended
  <2>5. QED
    BY <2>1, <2>2, <2>3, <2>4
<1>7. \A k \in Written : day'[k] = 0 => counted'[k] = 0
  BY <1>1, Appended DEF LogInv, Places
<1>8. Places'
  BY <1>1, <1>5, <1>6, <1>7 DEF LogInv, Places
<1>9. Followed
  BY Appended, FollowsAppended DEF Followed
<1>10. QED
  BY <1>1, <1>2, <1>8, <1>9, Appended, FilesMove

LEMMA NextDayKeeps ==
  ASSUME LogInv, NextDay
  PROVE  LogInv'
BY FollowsStill, FilesMove DEF NextDay, logTables, LogInv, LogTyped, Places, Followed

LEMMA RenameKeeps ==
  ASSUME LogInv, Rename
  PROVE  LogInv'
<1>1. /\ UNCHANGED <<today, day, content, handle, logTables, cursor, counted, jobs, running, scan>>
      /\ rotated' = rotated \cup {active} /\ active' = Nil /\ active # Nil
      /\ tally' = [tally EXCEPT !.cuts = @ + 1]
  BY DEF Rename, logTables
<1>2. /\ tally' \in Tally
      /\ tally'.passed = tally.passed /\ tally'.again = tally.again
  <2>1. tally \in Tally
    BY DEF LogInv, LogTyped
  <2>2. tally' = [tally EXCEPT !.cuts = @ + 1]
    BY <1>1
  <2>3. QED
    BY <2>1, <2>2 DEF Tally
<1>3. LogTyped'
  BY <1>1, <1>2 DEF LogInv, LogTyped
<1>4. Places'
  BY <1>1 DEF LogInv, Places
<1>5. Followed
  BY <1>1, <1>2, FollowsRenamed DEF Followed
<1>6. QED
  BY <1>1, <1>2, <1>3, <1>4, <1>5, FilesMove

LEMMA ReopenKeeps ==
  ASSUME LogInv, Reopen
  PROVE  LogInv'
<1>1. PICK i \in Inodes :
        /\ content' = [content EXCEPT ![i] = << >>] /\ active' = i /\ handle' = i
        /\ tally' = [tally EXCEPT !.again = @ \/ cursor.inode = i \/ \E s \in Scanners :
                      scan[s] # Nil /\ scan[s].cursor.inode = i]
  BY DEF Reopen
<1>2. UNCHANGED <<today, day, rotated, logTables, cursor, counted, jobs, running, scan>> /\ cut' = "cleanup"
  BY DEF Reopen, logTables
<1>3. PICK b \in BOOLEAN : b = (tally.again \/ InUseOf(i))
  OBVIOUS
<1>4. tally' = [tally EXCEPT !.again = b]
  BY <1>1, <1>3 DEF InUseOf
<1>5. /\ tally' \in Tally
      /\ tally'.passed = tally.passed /\ tally'.again = b
  BY <1>4 DEF LogInv, LogTyped, Tally
<1>6. /\ \A j \in Inodes \ {i} : content'[j] = content[j]
      /\ content'[i] = << >> /\ content' \in [Inodes -> Seq(Written)]
  BY <1>1 DEF LogInv, LogTyped
<1>7. LogTyped'
  BY <1>1, <1>2, <1>5, <1>6 DEF LogInv, LogTyped
<1>8. \A j \in Inodes, k \in Nat : k \in 1..Len(content'[j]) => j # i /\ content'[j] = content[j]
  BY <1>6
<1>9. Places'
  BY <1>2, <1>8, <1>1 DEF LogInv, Places
<1>10. ASSUME ~tally'.again PROVE ~tally.again /\ Followed
  BY <1>3, <1>5, <1>10, <1>1, <1>2, FollowsReopened DEF InUse, InUseOf, LogInv, Followed
<1>11. QED
  BY <1>2, <1>7, <1>9, <1>10, FilesMove

LEMMA ReopenFailsKeeps ==
  ASSUME LogInv, ReopenFails
  PROVE  LogInv'
<1>1. /\ UNCHANGED <<today, day, content, active, rotated, handle, logTables, cursor, counted, jobs, running, scan>>
      /\ tally' = [tally EXCEPT !.breaks = @ + 1] /\ cut' = "cleanup"
  BY DEF ReopenFails, Break, logTables
<1>2. /\ tally' \in Tally
      /\ tally'.passed = tally.passed /\ tally'.again = tally.again
  <2>1. tally \in Tally
    BY DEF LogInv, LogTyped
  <2>2. tally' = [tally EXCEPT !.breaks = @ + 1]
    BY <1>1
  <2>3. QED
    BY <2>1, <2>2 DEF Tally
<1>3. LogTyped'
  BY <1>1, <1>2 DEF LogInv, LogTyped
<1>4. Places'
  BY <1>1 DEF LogInv, Places
<1>5. Followed
  BY <1>1, <1>2, FollowsStill DEF Followed
<1>6. QED
  BY <1>1, <1>2, <1>3, <1>4, <1>5, FilesMove

LEMMA CleanupKeeps ==
  ASSUME LogInv, Cleanup
  PROVE  LogInv'
BY FollowsStill, FilesMove DEF Cleanup, logTables, LogInv, LogTyped, Places, Followed

(* A step of a scan that takes no lines over and leaves none to be saved.    *)
LEMMA ScanMove ==
  ASSUME LogInv, UNCHANGED <<logFiles, cursor, counted>>, tally' \in Tally, tally'.passed = tally.passed,
         tally'.again = tally.again, scan' \in [Scanners -> Scan \cup {Nil}],
         running' \in Scanners \cup {Nil}, Alone',
         \A s \in Scanners : ScanAt(s, "save")' => scan'[s] = scan[s]
  PROVE  LogInv'
<1>1. UNCHANGED <<today, day, content, active, rotated, handle, cut>>
  BY DEF logFiles
<1>2. LogTyped'
  BY <1>1 DEF LogInv, LogTyped
<1>3. Places'
  BY <1>1 DEF LogInv, Places
<1>4. ASSUME ~tally'.again PROVE Counting'
  <2>1. Counting
    BY <1>4 DEF LogInv
  <2>2. Follows(cursor, {})'
    <3>1. PICK c : c = cursor
      OBVIOUS
    <3>2. Follows(c, {})'
      BY <1>1, <2>1, <3>1, FollowsStill DEF Counting
    <3>3. QED
      BY <3>1, <3>2
  <2>3. ASSUME NEW s \in Scanners, ScanAt(s, "save")'
        PROVE  Follows(scan[s].cursor, Lines(s))' /\ \A l \in Lines(s)' : counted'[l] = 0
    <3>1. scan'[s] = scan[s] /\ ScanAt(s, "save") /\ Lines(s)' = Lines(s)
      BY <2>3 DEF ScanAt, Lines
    <3>2. PICK c, lines : c = scan[s].cursor /\ lines = Lines(s)
      OBVIOUS
    <3>3. Follows(c, lines) /\ \A l \in lines : counted[l] = 0
      BY <2>1, <3>1, <3>2 DEF Counting
    <3>4. Follows(c, lines)'
      BY <1>1, <3>3, FollowsStill
    <3>5. c = scan'[s].cursor /\ lines = Lines(s)'
      BY <3>1, <3>2
    <3>6. QED
      BY <3>3, <3>4, <3>5
  <2>4. QED
    BY <2>1, <2>2, <2>3 DEF Counting
<1>5. QED
  BY <1>2, <1>3, <1>4 DEF LogInv

(* A scanner's own step.                                                     *)
LEMMA OwnStep ==
  ASSUME LogTyped, NEW s \in Scanners, NEW r \in Scan \cup {Nil}, scan' = [scan EXCEPT ![s] = r]
  PROVE  /\ scan' \in [Scanners -> Scan \cup {Nil}] /\ scan'[s] = r
         /\ \A t \in Scanners \ {s} : scan'[t] = scan[t] /\ Lines(t)' = Lines(t)
BY DEF LogTyped, Lines

LEMMA AdmitKeeps ==
  ASSUME LogInv, NEW s \in Scanners, Admit(s)
  PROVE  LogInv'
<1>1. /\ running = Nil /\ running' = s /\ scan[s] = Nil
      /\ UNCHANGED <<logFiles, cursor, counted>>
      /\ tally' = [tally EXCEPT !.scans = @ + 1]
  BY DEF Admit, BeginScan
<1>2. tally \in Tally /\ cursor \in Cursor /\ Nil \notin Scanners
  BY LogAssumption DEF LogInv, LogTyped
<1>3. tally' \in Tally /\ tally'.passed = tally.passed /\ tally'.again = tally.again
  BY <1>1, <1>2 DEF Tally
<1>4. PICK r : r = [pc |-> "create", job |-> tally.scans, cursor |-> cursor, range |-> {}, rotated |-> FALSE,
                    lines |-> << >>, older |-> {}]
  OBVIOUS
<1>5. r \in Scan /\ r.pc = "create" /\ r.lines = << >> /\ r.older = {}
  BY <1>2, <1>4 DEF Scan, Tally
<1>6. scan' = [scan EXCEPT ![s] = r]
  BY <1>4 DEF Admit, BeginScan
<1>7. \A t \in Scanners : scan[t] = Nil
  BY <1>1, <1>2 DEF LogInv, Alone
<1>8. /\ scan' \in [Scanners -> Scan \cup {Nil}] /\ scan'[s] = r
      /\ \A t \in Scanners \ {s} : scan'[t] = Nil
  BY <1>5, <1>6, <1>7, OwnStep DEF LogInv
<1>9. Lines(s)' = {}
  BY <1>5, <1>8 DEF Lines
<1>10. Alone'
  BY <1>1, <1>5, <1>8, <1>9 DEF Alone
<1>11. \A t \in Scanners : ScanAt(t, "save")' => scan'[t] = scan[t]
  BY <1>5, <1>8 DEF ScanAt
<1>12. QED
  BY <1>1, <1>3, <1>8, <1>10, <1>11, ScanMove

LEMMA CreateJobKeeps ==
  ASSUME LogInv, NEW s \in Scanners, CreateJob(s)
  PROVE  LogInv'
<1>1. UNCHANGED <<logFiles, cursor, counted, running, tally>> /\ ScanAt(s, "create")
  BY DEF CreateJob
<1>2. PICK range \in SUBSET Nat, b \in BOOLEAN :
        scan' = [scan EXCEPT ![s].pc = "cursor", ![s].range = range, ![s].rotated = b]
  <2>1. today \in Nat \ {0}
    BY DEF LogInv, LogTyped
  <2>2. {today} \in SUBSET Nat /\ {today - 1} \in SUBSET Nat /\ 1..today \in SUBSET Nat
    BY <2>1
  <2>3. QED
    BY <2>2 DEF CreateJob
<1>3. scan[s] \in Scan /\ scan \in [Scanners -> Scan \cup {Nil}]
  BY <1>1, ScanTyped DEF ScanAt, LogInv, LogTyped
<1>4. PICK old \in Scan : old = scan[s]
  BY <1>3
<1>5. PICK r : r = [old EXCEPT !.pc = "cursor", !.range = range, !.rotated = b]
  OBVIOUS
<1>6. r \in Scan /\ r.pc = "cursor" /\ r.lines = old.lines /\ r.older = old.older
  BY <1>5 DEF Scan
<1>7. scan' = [scan EXCEPT ![s] = r]
  BY <1>2, <1>3, <1>4, <1>5
<1>8. /\ scan' \in [Scanners -> Scan \cup {Nil}] /\ scan'[s] = r
      /\ \A t \in Scanners \ {s} : scan'[t] = scan[t] /\ Lines(t)' = Lines(t)
  BY <1>6, <1>7, OwnStep DEF LogInv
<1>9. Lines(s)' = Lines(s)
  BY <1>4, <1>6, <1>8 DEF Lines
<1>10. Alone'
  BY <1>1, <1>4, <1>6, <1>8, <1>9 DEF LogInv, Alone, ScanAt, logFiles
<1>11. \A t \in Scanners : ScanAt(t, "save")' => scan'[t] = scan[t]
  BY <1>6, <1>8 DEF ScanAt
<1>12. QED
  BY <1>1, <1>8, <1>10, <1>11, ScanMove DEF LogInv, LogTyped

LEMMA GetCursorKeeps ==
  ASSUME LogInv, NEW s \in Scanners, GetCursor(s)
  PROVE  LogInv'
<1>1. UNCHANGED <<logFiles, cursor, counted, running, tally>> /\ ScanAt(s, "cursor")
  BY DEF GetCursor, logTables
<1>2. cursor \in Cursor /\ scan[s] \in Scan /\ scan \in [Scanners -> Scan \cup {Nil}]
  BY <1>1, ScanTyped DEF ScanAt, LogInv, LogTyped
<1>3. PICK old \in Scan : old = scan[s]
  BY <1>2
<1>4. PICK r : r = [old EXCEPT !.pc = "read", !.cursor = cursor]
  OBVIOUS
<1>5. r \in Scan /\ r.pc = "read" /\ r.cursor = cursor /\ r.lines = old.lines /\ r.older = old.older
  BY <1>2, <1>4 DEF Scan
<1>6. scan' = [scan EXCEPT ![s] = r]
  BY <1>2, <1>3, <1>4 DEF GetCursor
<1>7. /\ scan' \in [Scanners -> Scan \cup {Nil}] /\ scan'[s] = r
      /\ \A t \in Scanners \ {s} : scan'[t] = scan[t] /\ Lines(t)' = Lines(t)
  BY <1>5, <1>6, OwnStep DEF LogInv
<1>8. Lines(s)' = Lines(s)
  BY <1>3, <1>5, <1>7 DEF Lines
<1>9. Alone'
  BY <1>1, <1>3, <1>5, <1>7, <1>8 DEF LogInv, Alone, ScanAt, logFiles
<1>10. \A t \in Scanners : ScanAt(t, "save")' => scan'[t] = scan[t]
  BY <1>5, <1>7 DEF ScanAt
<1>11. QED
  BY <1>1, <1>7, <1>9, <1>10, ScanMove DEF LogInv, LogTyped

LEMMA FailKeeps ==
  ASSUME LogInv, NEW s \in Scanners, Fail(s)
  PROVE  LogInv'
<1>1. /\ UNCHANGED <<logFiles, cursor, counted, running>> /\ scan[s] # Nil
      /\ tally' = [tally EXCEPT !.breaks = @ + 1]
      /\ scan' = [scan EXCEPT ![s].pc = "release"]
  BY DEF Fail, Break, Step
<1>2. tally \in Tally /\ scan[s] \in Scan /\ scan \in [Scanners -> Scan \cup {Nil}]
  BY <1>1, ScanTyped DEF LogInv, LogTyped
<1>3. tally' \in Tally /\ tally'.passed = tally.passed /\ tally'.again = tally.again
  BY <1>1, <1>2 DEF Tally
<1>4. PICK old \in Scan : old = scan[s]
  BY <1>2
<1>5. PICK r : r = [old EXCEPT !.pc = "release"]
  OBVIOUS
<1>6. r \in Scan /\ r.pc = "release" /\ r.lines = old.lines /\ r.older = old.older
  BY <1>5 DEF Scan
<1>7. scan' = [scan EXCEPT ![s] = r]
  BY <1>1, <1>2, <1>4, <1>5
<1>8. /\ scan' \in [Scanners -> Scan \cup {Nil}] /\ scan'[s] = r
      /\ \A t \in Scanners \ {s} : scan'[t] = scan[t] /\ Lines(t)' = Lines(t)
  BY <1>6, <1>7, OwnStep DEF LogInv
<1>9. Lines(s)' = Lines(s)
  BY <1>4, <1>6, <1>8 DEF Lines
<1>10. Alone'
  BY <1>1, <1>4, <1>6, <1>8, <1>9 DEF LogInv, Alone, logFiles
<1>11. \A t \in Scanners : ScanAt(t, "save")' => scan'[t] = scan[t]
  BY <1>6, <1>8 DEF ScanAt
<1>12. QED
  BY <1>1, <1>3, <1>8, <1>10, <1>11, ScanMove DEF LogInv, LogTyped

LEMMA ReleaseKeeps ==
  ASSUME LogInv, NEW s \in Scanners, Release(s)
  PROVE  LogInv'
BY OwnStep, ScanMove DEF Release, logTables, LogInv, Alone, ScanAt, LogTyped

LEMMA AgeKeeps ==
  ASSUME LogInv, Age
  PROVE  LogInv'
BY ScanMove DEF Age, LogInv, Alone, Lines, logFiles, LogTyped, ScanAt

LEMMA RestartKeeps ==
  ASSUME LogInv, Restart
  PROVE  LogInv'
<1>1. /\ UNCHANGED <<logFiles, cursor, counted>> /\ scan' = [s \in Scanners |-> Nil] /\ running' = Nil
      /\ tally' = [tally EXCEPT !.breaks = @ + 1]
  BY DEF Restart, Break
<1>2. tally \in Tally
  BY DEF LogInv, LogTyped
<1>3. tally' \in Tally /\ tally'.passed = tally.passed /\ tally'.again = tally.again
  BY <1>1, <1>2 DEF Tally
<1>4. Alone' /\ \A s \in Scanners : ScanAt(s, "save")' => scan'[s] = scan[s]
  BY <1>1 DEF Alone, ScanAt
<1>5. QED
  BY <1>1, <1>3, <1>4, ScanMove

(* What a reading yields: where it starts is where the cursor ends, if it is *)
(* of this file.                                                             *)
LEMMA Begins ==
  ASSUME LogTyped, NEW i \in Inodes
  PROVE  /\ StartOf(cursor, i) \in 0..Len(content[i])
         /\ Within(cursor) /\ cursor.inode = i => StartOf(cursor, i) = cursor.offset
         /\ cursor.inode # i => StartOf(cursor, i) = 0
BY LogAssumption DEF LogTyped, Cursor, StartOf, Within

LEMMA PartsOfInv ==
  ASSUME NEW q \in Seq(Written), NEW m \in Nat \ {0}, NEW b \in Nat, b <= Len(q), m <= b + 1
  PROVE  \E p \in Seq(Written) : /\ p = SubSeq(q, m, b)
                            /\ \A x : (\E k \in 1..Len(p) : x = p[k]) <=> \E k \in m..b : x = q[k]
<1>1. PICK p : p = SubSeq(q, m, b)
  OBVIOUS
<1>2. p \in Seq(Written) /\ Len(p) = b - m + 1
  BY <1>1
<1>3. \A k \in 1..(b - m + 1) : p[k] = q[k + m - 1]
  BY <1>1
<1>4. ASSUME NEW k \in 1..Len(p) PROVE \E n \in m..b : p[k] = q[n]
  BY <1>2, <1>3, <1>4
<1>5. ASSUME NEW n \in m..b PROVE \E k \in 1..Len(p) : q[n] = p[k]
  <2>1. n - m + 1 \in 1..(b - m + 1) /\ n = (n - m + 1) + m - 1
    BY <1>5
  <2>2. p[n - m + 1] = q[n]
    BY <1>3, <2>1
  <2>3. QED
    BY <1>2, <2>1, <2>2
<1>6. \A x : (\E k \in 1..Len(p) : x = p[k]) <=> \E k \in m..b : x = q[k]
  BY <1>4, <1>5
<1>7. QED
  BY <1>1, <1>2, <1>6

LEMMA ReadLogKeeps ==
  ASSUME LogInv, NEW s \in Scanners, ReadLog(s)
  PROVE  LogInv'
<1>1. UNCHANGED <<logFiles, cursor, counted, running, tally>> /\ ScanAt(s, "read")
  BY DEF ReadLog, logTables
<1>2. UNCHANGED <<today, day, content, active, rotated, handle, cut>>
  BY <1>1 DEF logFiles
<1>3. /\ cursor \in Cursor /\ scan[s] \in Scan /\ scan \in [Scanners -> Scan \cup {Nil}]
      /\ content \in [Inodes -> Seq(Written)] /\ rotated \subseteq Inodes /\ active \in Inodes \cup {Nil}
  BY <1>1, ScanTyped DEF ScanAt, LogInv, LogTyped
<1>4. PICK old \in Scan : old = scan[s]
  BY <1>3
<1>5. old.cursor = cursor /\ old.lines = << >> /\ running = s
  BY <1>1, <1>4 DEF LogInv, Alone, ScanAt
<1>6. \A t \in Scanners \ {s} : scan[t] = Nil
  BY <1>5 DEF LogInv, Alone
<1>7. PICK r \in Scan : /\ scan' = [scan EXCEPT ![s] = r] /\ r.pc = "save"
                        /\ \A k \in 1..Len(r.lines) : day[r.lines[k]] # 0
                        /\ \A l \in r.older : day[l] # 0
                        /\ ~tally.again => /\ Follows(r.cursor, {r.lines[k] : k \in 1..Len(r.lines)})
                                           /\ \A k \in 1..Len(r.lines) : counted[r.lines[k]] = 0
  <2>1. CASE active = Nil
    <3>1. PICK r : r = [old EXCEPT !.pc = "save"]
      OBVIOUS
    <3>2. r \in Scan /\ r.pc = "save" /\ r.cursor = cursor /\ r.lines = << >> /\ r.older = old.older
      BY <1>5, <3>1 DEF Scan
    <3>3. scan' = [scan EXCEPT ![s] = r]
      BY <1>3, <1>4, <2>1, <3>1 DEF ReadLog
    <3>4. {r.lines[k] : k \in 1..Len(r.lines)} = {}
      BY <3>2
    <3>5. ~tally.again => Follows(r.cursor, {})
      BY <3>2 DEF LogInv, Counting
    <3>6. \A l \in old.older : day[l] # 0
      BY <1>1, <1>4 DEF LogInv, Alone, ScanAt
    <3>7. QED
      BY <3>2, <3>3, <3>4, <3>5, <3>6
  <2>2. CASE active # Nil
    <3>1. active \in Inodes
      BY <1>3, <2>2
    <3>2. PICK q \in Seq(Written) : q = content[active]
      BY <1>3, <3>1
    <3>3. PICK first \in 0..Len(q) : first = StartOf(cursor, active)
      BY <3>1, <3>2, Begins DEF LogInv
    <3>4. PICK end \in first..Len(q) :
            scan' = [scan EXCEPT ![s].pc = "save",
                   ![s].cursor = [inode |-> active, offset |-> end, size |-> Len(q)],
                   ![s].lines = SubSeq(q, first + 1, end),
                   ![s].older = IF scan[s].rotated /\ end = Len(q) THEN LinesOf(rotated) ELSE {}]
      BY <1>4, <1>5, <2>2, <3>2, <3>3 DEF ReadLog
    <3>5. Len(q) \in Nat /\ end \in Nat
      BY <3>2
    <3>6. PICK c \in Cursor : c = [inode |-> active, offset |-> end, size |-> Len(q)]
      BY <3>1, <3>5 DEF Cursor
    <3>7. PICK p \in Seq(Written) : /\ p = SubSeq(q, first + 1, end)
                                    /\ \A x : (\E k \in 1..Len(p) : x = p[k])
                                                <=> \E k \in (first + 1)..end : x = q[k]
      <4>1. PICK m \in Nat \ {0} : m = first + 1
        BY <3>5
      <4>2. end \in Nat /\ end <= Len(q) /\ m <= end + 1
        BY <3>5, <4>1
      <4>3. \E p \in Seq(Written) : /\ p = SubSeq(q, m, end)
                                     /\ \A x : (\E k \in 1..Len(p) : x = p[k]) <=> \E k \in m..end : x = q[k]
        BY <3>2, <4>2, PartsOfInv
      <4>4. QED
        BY <4>1, <4>3
    <3>8. PICK o \in SUBSET Written :
            /\ o = IF scan[s].rotated /\ end = Len(q) THEN LinesOf(rotated) ELSE {}
            /\ \A l \in o : day[l] # 0
      <4>1. \A i \in Inodes : content[i] \in Seq(Written)
        BY <1>3
      <4>2. \A i \in Inodes : {content[i][k] : k \in 1..Len(content[i])} \subseteq Written
        BY <4>1
      <4>3. LinesOf(rotated) \subseteq Written
        BY <1>3, <4>2 DEF LinesOf
      <4>4. \A i \in Inodes : \A k \in 1..Len(content[i]) : k \in Nat /\ day[content[i][k]] # 0
        BY DEF LogInv, Places
      <4>5. \A l \in LinesOf(rotated) : day[l] # 0
        BY <1>3, <4>4 DEF LinesOf
      <4>6. PICK o : o = IF scan[s].rotated /\ end = Len(q) THEN LinesOf(rotated) ELSE {}
        OBVIOUS
      <4>7. o = LinesOf(rotated) \/ o = {}
        BY <4>6
      <4>8. o \in SUBSET Written /\ \A l \in o : day[l] # 0
        BY <4>3, <4>5, <4>7
      <4>9. QED
        BY <4>6, <4>8
    <3>9. PICK r : r = [old EXCEPT !.pc = "save", !.cursor = c, !.lines = p, !.older = o]
      OBVIOUS
    <3>10. r \in Scan /\ r.pc = "save" /\ r.cursor = c /\ r.lines = p /\ r.older = o
      BY <3>9 DEF Scan
    <3>11. scan' = [scan EXCEPT ![s] = r]
      BY <1>3, <1>4, <3>4, <3>6, <3>7, <3>8, <3>9
    <3>12. PICK lines \in SUBSET Written : lines = {p[k] : k \in 1..Len(p)}
      <4>1. \A k \in 1..Len(p) : p[k] \in Written
        BY <3>7
      <4>2. QED
        BY <4>1
    <3>13. \A x : x \in lines <=> \E k \in (first + 1)..end : x = q[k]
      BY <3>7, <3>12
    <3>14. \A k \in (first + 1)..end : k \in Nat /\ k \in 1..Len(q) /\ k > first
      BY <3>5
    <3>15. \A x \in lines : day[x] # 0
      BY <3>1, <3>2, <3>13, <3>14 DEF LogInv, Places
    <3>16. ASSUME ~tally.again PROVE Follows(c, lines) /\ \A x \in lines : counted[x] = 0
      <4>1. Counting
        BY <3>16 DEF LogInv
      <4>2. Within(cursor) /\ Dealt(cursor, {}) /\ Untouched(cursor, {})
        BY <4>1 DEF Counting, Follows
      <4>3. cursor.inode = active => first = cursor.offset
        BY <3>1, <3>3, <4>2, Begins DEF LogInv
      <4>4. cursor.inode # active => first = 0
        BY <3>1, <3>3, Begins DEF LogInv
      <4>5. \A k \in 1..Len(q) : k > first => counted[q[k]] = 0
        BY <2>2, <3>2, <4>2, <4>3 DEF Untouched
      <4>6. \A x \in lines : counted[x] = 0
        BY <3>13, <3>14, <4>5
      <4>7. Within(c)
        BY <2>2, <3>2, <3>5, <3>6 DEF Within
      <4>8. Dealt(c, lines)
        <5>1. SUFFICES ASSUME NEW k \in 1..end PROVE q[k] \in tally.passed \cup lines \/ counted[q[k]] = 1
          BY <3>2, <3>6 DEF Dealt
        <5>2. CASE k <= first
          BY <4>3, <4>4, <5>2, <2>2, <3>2, <4>2 DEF Dealt
        <5>3. CASE ~(k <= first)
          BY <3>5, <3>13, <5>3
        <5>4. QED
          BY <5>2, <5>3
      <4>9. Untouched(c, lines)
        <5>1. SUFFICES ASSUME NEW k \in 1..Len(q), ~(k <= end) PROVE q[k] \notin lines /\ counted[q[k]] = 0
          BY <2>2, <3>2, <3>6 DEF Untouched
        <5>2. k > first
          BY <3>5, <5>1
        <5>3. \A m \in (first + 1)..end : q[m] # q[k]
          BY <3>1, <3>2, <3>14, <3>5, <5>1 DEF LogInv, Places
        <5>4. QED
          BY <3>13, <4>5, <5>2, <5>3
      <4>10. QED
        BY <4>6, <4>7, <4>8, <4>9 DEF Follows
    <3>17. {r.lines[k] : k \in 1..Len(r.lines)} = lines
      BY <3>10, <3>12
    <3>18. \A k \in 1..Len(r.lines) : r.lines[k] \in lines
      BY <3>17
    <3>19. QED
      BY <3>8, <3>10, <3>11, <3>15, <3>16, <3>17, <3>18
  <2>3. QED
    BY <2>1, <2>2
<1>8. /\ scan' \in [Scanners -> Scan \cup {Nil}] /\ scan'[s] = r
      /\ \A t \in Scanners \ {s} : scan'[t] = Nil
  BY <1>6, <1>7, OwnStep DEF LogInv
<1>9. PICK lines : lines = {r.lines[k] : k \in 1..Len(r.lines)}
  OBVIOUS
<1>10. Lines(s)' = lines
  BY <1>8, <1>9 DEF Lines
<1>11. \A l \in lines : day[l] # 0 /\ (~tally.again => counted[l] = 0)
  BY <1>7, <1>9
<1>12. LogTyped'
  BY <1>1, <1>2, <1>8 DEF LogInv, LogTyped
<1>13. Places'
  BY <1>1, <1>2 DEF LogInv, Places
<1>14. Alone'
  BY <1>1, <1>2, <1>5, <1>7, <1>8, <1>10, <1>11 DEF Alone
<1>15. ASSUME ~tally'.again PROVE Counting'
  <2>1. Counting /\ ~tally.again
    BY <1>1, <1>15 DEF LogInv
  <2>2. PICK c, d : c = cursor /\ d = r.cursor
    OBVIOUS
  <2>3. Follows(c, {})'
    BY <1>1, <1>2, <2>1, <2>2, FollowsStill DEF Counting
  <2>4. Follows(d, lines)'
    BY <1>1, <1>2, <1>7, <1>9, <2>1, <2>2, FollowsStill
  <2>5. Follows(cursor, {})'
    BY <1>1, <2>2, <2>3
  <2>6. d = scan'[s].cursor /\ lines = Lines(s)'
    BY <1>8, <1>10, <2>2
  <2>7. Follows(scan[s].cursor, Lines(s))'
    BY <2>4, <2>6
  <2>8. \A t \in Scanners : ScanAt(t, "save")' => t = s
    BY <1>8 DEF ScanAt
  <2>9. QED
    BY <1>1, <1>10, <1>11, <2>1, <2>5, <2>7, <2>8 DEF Counting
<1>16. QED
  BY <1>12, <1>13, <1>14, <1>15 DEF LogInv

LEMMA SaveKeepsLog ==
  ASSUME LogInv, NEW s \in Scanners, Save(s)
  PROVE  LogInv'
<1>1. /\ UNCHANGED <<logFiles, running>> /\ ScanAt(s, "save") /\ cursor' = scan[s].cursor
      /\ Added(s) /\ scan' = [scan EXCEPT ![s].pc = "release"]
  BY DEF Save, Step
<1>2. UNCHANGED <<today, day, content, active, rotated, handle, cut>>
  BY <1>1 DEF logFiles
<1>3. /\ scan[s] \in Scan /\ scan \in [Scanners -> Scan \cup {Nil}] /\ tally \in Tally
      /\ counted \in [Written -> Nat] /\ Lines(s) \subseteq Written
  BY <1>1, ScanTyped DEF ScanAt, LogInv, LogTyped
<1>4. PICK old \in Scan : old = scan[s]
  BY <1>3
<1>5. PICK r : r = [old EXCEPT !.pc = "release"]
  OBVIOUS
<1>6. r \in Scan /\ r.pc = "release" /\ r.lines = old.lines
  BY <1>5 DEF Scan
<1>7. scan' = [scan EXCEPT ![s] = r]
  BY <1>1, <1>3, <1>4, <1>5
<1>8. running = s /\ \A t \in Scanners \ {s} : scan[t] = Nil
  BY <1>1 DEF LogInv, Alone, ScanAt
<1>9. /\ scan' \in [Scanners -> Scan \cup {Nil}] /\ scan'[s] = r
      /\ \A t \in Scanners \ {s} : scan'[t] = Nil
  BY <1>6, <1>7, <1>8, OwnStep DEF LogInv
<1>10. Lines(s)' = Lines(s)
  BY <1>4, <1>6, <1>9 DEF Lines
<1>11. PICK gone \in SUBSET Written : gone = {l \in Lines(s) : ~InRange(s, l)}
  BY <1>3
<1>12. PICK passed \in SUBSET Written : passed = tally.passed \cup gone
  BY <1>3 DEF Tally
<1>13. PICK b \in BOOLEAN : b <=> tally.again \/ scan[s].older # {}
  OBVIOUS
<1>14. tally' = [tally EXCEPT !.passed = passed, !.again = b]
  BY <1>3, <1>13, <1>11, <1>12 DEF Tally, Save
<1>15. tally' \in Tally /\ tally'.passed = passed /\ tally'.again = b
  BY <1>3, <1>14 DEF Tally
<1>16. /\ counted' \in [Written -> Nat]
       /\ \A l \in Written : counted'[l] = IF counted[l] < 2 /\ l \in Lines(s) \cup scan[s].older /\ InRange(s, l)
                                             THEN counted[l] + 1 ELSE counted[l]
  BY <1>1, <1>3 DEF Added
<1>17. LogTyped'
  BY <1>1, <1>2, <1>3, <1>9, <1>15, <1>16 DEF LogInv, LogTyped, Scan
<1>18. \A l \in Written : day[l] = 0 => day[l] = day'[l] /\ counted[l] = 0
  BY <1>2 DEF LogInv, Places
<1>19. Alone'
  BY <1>1, <1>2, <1>6, <1>8, <1>9, <1>10 DEF LogInv, Alone, ScanAt
<1>20. Places'
  BY <1>1, <1>2, <1>16, <1>18 DEF LogInv, Alone, ScanAt, Places
<1>21. ASSUME ~tally'.again PROVE Counting'
  <2>1. ~tally.again /\ scan[s].older = {}
    BY <1>13, <1>15, <1>21
  <2>2. Counting
    BY <2>1 DEF LogInv
  <2>3. PICK c, lines : c = scan[s].cursor /\ lines = Lines(s)
    OBVIOUS
  <2>4. Follows(c, lines) /\ lines \subseteq Written /\ \A l \in lines : counted[l] = 0
    BY <1>1, <1>3, <2>2, <2>3 DEF Counting
  <2>5. /\ \A l \in Written : l \notin lines => counted'[l] = counted[l]
        /\ \A l \in lines : counted'[l] = 1 \/ (l \in gone /\ counted'[l] = 0)
    BY <1>11, <1>16, <2>1, <2>3, <2>4
  <2>6. \A l \in Written : counted'[l] <= 1
    BY <2>2, <2>4, <2>5 DEF Counting
  <2>7. c \in Cursor
    BY <1>3, <2>3 DEF Scan
  <2>8. Within(c)'
    BY <1>2, <2>4 DEF Follows, Within
  <2>9. \A i \in Inodes : Len(content[i]) \in Nat /\ \A k \in 1..Len(content[i]) : content[i][k] \in Written
    BY DEF LogInv, LogTyped
  <2>10. Dealt(c, {})'
    <3>1. SUFFICES ASSUME c.inode # Nil, NEW k \in 1..c.offset
                   PROVE  content[c.inode][k] \in passed \/ counted'[content[c.inode][k]] = 1
      BY <1>2, <1>15 DEF Dealt
    <3>2. c.inode \in Inodes /\ k \in 1..Len(content[c.inode])
      BY <2>4, <2>7, <2>9, <3>1 DEF Follows, Within, Cursor
    <3>3. content[c.inode][k] \in Written
      BY <2>9, <3>2
    <3>4. content[c.inode][k] \in tally.passed \cup lines \/ counted[content[c.inode][k]] = 1
      BY <2>4, <3>1 DEF Follows, Dealt
    <3>5. QED
      BY <1>12, <2>4, <2>5, <3>3, <3>4
  <2>11. Untouched(c, {})'
    BY <1>2, <2>4, <2>9, <2>5 DEF Untouched, Follows, LogInv, LogTyped
  <2>12. Follows(c, {})'
    BY <2>8, <2>10, <2>11 DEF Follows
  <2>13. Follows(cursor, {})'
    BY <1>1, <2>3, <2>12
  <2>14. \A t \in Scanners : ~ScanAt(t, "save")'
    BY <1>6, <1>9 DEF ScanAt
  <2>15. QED
    BY <2>6, <2>13, <2>14 DEF Counting
<1>22. QED
  BY <1>17, <1>19, <1>20, <1>21 DEF LogInv

(* Where the lines are, that one scan runs at a time, and what a cursor and a *)
(* scan have to do with the lines that are counted.                          *)
THEOREM LogInvariant == LogSpec => []LogInv
<1>1. LogInit => LogInv
  <2>1. SUFFICES ASSUME LogInit PROVE LogInv
    OBVIOUS
  <2>2. LogTyped
    BY <2>1 DEF LogInit, LogTyped, Cursor, Tally
  <2>3. Places
    BY <2>1, LogAssumption DEF LogInit, Places
  <2>4. Alone
    BY <2>1 DEF LogInit, Alone
  <2>5. Follows(cursor, {})
    BY <2>1 DEF LogInit, Follows, Within, Dealt, Untouched
  <2>6. Counting
    BY <2>1, <2>5 DEF LogInit, Counting, ScanAt
  <2>7. QED
    BY <2>2, <2>3, <2>4, <2>6 DEF LogInv
<1>2. ASSUME LogInv, [LogNext]_logVars PROVE LogInv'
  <2>1. ASSUME NEW l \in Written, WriteLine(l) PROVE LogInv'
    BY <1>2, <2>1, WriteLineKeeps
  <2>2. CASE NextDay \/ Rename \/ Reopen \/ ReopenFails \/ Cleanup
    BY <1>2, <2>2, NextDayKeeps, RenameKeeps, ReopenKeeps, ReopenFailsKeeps, CleanupKeeps
  <2>3. ASSUME NEW s \in Scanners,
               Admit(s) \/ CreateJob(s) \/ GetCursor(s) \/ ReadLog(s) \/ Save(s) \/ Fail(s) \/ Release(s)
        PROVE  LogInv'
    BY <1>2, <2>3, AdmitKeeps, CreateJobKeeps, GetCursorKeeps, ReadLogKeeps, SaveKeepsLog, FailKeeps, ReleaseKeeps
  <2>4. CASE Age \/ Restart
    BY <1>2, <2>4, AgeKeeps, RestartKeeps
  <2>5. CASE UNCHANGED logVars
    BY <2>5, <1>2, ScanMove DEF logVars, logFiles, LogInv, Alone, Lines, LogTyped, ScanAt
  <2>6. QED
    BY <1>2, <2>1, <2>2, <2>3, <2>4, <2>5 DEF LogNext
<1>3. QED
  BY <1>1, <1>2, PTL DEF LogSpec

(* No line of the log is counted twice, and none before the cursor is missed *)
(* but those of days that were not asked for (agent.scanAccessLogFile,       *)
(* accessanalysis.SaveScanResult), as long as no rotated file is read and no *)
(* inode comes back.                                                         *)
THEOREM LinesCountedOnce == LogSpec => []CountedOnce
<1>1. LogInv => CountedOnce
  BY DEF CountedOnce, LogInv, Counting, Follows, Within, Dealt
<1>2. QED
  BY <1>1, LogInvariant, PTL

-----------------------------------------------------------------------------
(* GeoRules: what nginx refuses is what the rows say.                        *)

GeoTyped ==
  /\ country \in [GeoSites -> SiteRow] /\ proxies \in Nat
  /\ geoFiles \in [body : [GeoSites -> Nat], marked : SUBSET GeoSites, proxies : Nat,
                   rules : [GeoSites -> Nat]]
  /\ change \in Change \cup {Quiet} /\ strayGeo \in GeoTransaction \cup {Quiet}
  /\ geoPhase \in {"up", "start", "closing", "serving"}
  /\ adrift \subseteq GeoSites /\ loose \subseteq GeoSites
  /\ geoUsed \in [ops : Nat, faults : Nat]

(* What an operation remembers fits the rows: until it ends it is about its  *)
(* own site only, or about the settings.                                     *)
Remembered ==
  change # Quiet =>
    /\ change.pc # "back" => change.tx = RenderConfiguration(country, change.site, proxies)
    /\ \A s \in GeoSites \ {change.site} : country[s] = change.was[s]
    /\ change.op \notin {"site", "sync"} => country = change.was
    /\ change.op # "settings" => proxies = change.had
    /\ change.op \in {"site", "sync", "again", "close"} => change.site \in GeoSites
    /\ change.op \in {"settings", "start"} => change.site = AllSites
    /\ change.op = "sync" => \A s \in GeoSites : country[s].on = change.was[s].on

(* What the files are to agree with: the former rows and settings until a    *)
(* transaction is known to be carried out, the rows and settings then.       *)
Unanswered == change # Quiet /\ change.pc \in {"call", "back"}
Held(s) == IF Unanswered THEN change.was[s] ELSE country[s]
HeldProxies == IF Unanswered THEN change.had ELSE proxies

BodiesServed ==
  \A s \in GeoSites \ adrift : Held(s).on =>
    /\ geoFiles.body[s] = Held(s).rule /\ geoFiles.rules[s] = Held(s).rule
    /\ geoFiles.proxies = HeldProxies

IncludesServed ==
  \A s \in GeoSites \ loose : s \in geoFiles.marked <=> Held(s).on

GeoInv == GeoTyped /\ Remembered /\ BodiesServed /\ IncludesServed

-----------------------------------------------------------------------------
(* What the helpers make.                                                    *)

LEMMA RenderTyped ==
  ASSUME NEW rows \in [GeoSites -> SiteRow], NEW site \in GeoSites \cup {AllSites}, NEW p \in Nat
  PROVE  RenderConfiguration(rows, site, p) \in GeoTransaction
BY DEF RenderConfiguration, GeoTransaction, ListEnabled, SiteRow

LEMMA WrittenTyped ==
  ASSUME GeoTyped, NEW tx \in GeoTransaction
  PROVE  WrittenBy(tx) \in [body : [GeoSites -> Nat], marked : SUBSET GeoSites, proxies : Nat,
                            rules : [GeoSites -> Nat]]
BY DEF GeoTyped, WrittenBy, PatchAccessLimit, PatchTargets, GeoTransaction

LEMMA RowTyped ==
  ASSUME GeoTyped, NEW s \in GeoSites, NEW line \in SiteRow
  PROVE  /\ Row(s, line) \in [GeoSites -> SiteRow] /\ Row(s, line)[s] = line
         /\ \A r \in GeoSites \ {s} : Row(s, line)[r] = country[r]
BY DEF GeoTyped, Row

(* An operation begins: whatever rows it has written, the files are still as *)
(* the former ones say.                                                      *)
LEMMA OperationBegins ==
  ASSUME GeoInv, change = Quiet,
         NEW op \in {"site", "again", "sync", "settings", "close", "start"},
         NEW site \in GeoSites \cup {AllSites}, NEW rows \in [GeoSites -> SiteRow], NEW p \in Nat,
         \A s \in GeoSites \ {site} : rows[s] = country[s],
         op \notin {"site", "sync"} => rows = country,
         op # "settings" => p = proxies,
         op \in {"site", "sync", "again", "close"} => site \in GeoSites,
         op \in {"settings", "start"} => site = AllSites,
         op = "sync" => \A s \in GeoSites : rows[s].on = country[s].on,
         ApplyAll(op, site, rows, p),
         geoPhase' \in {"up", "start", "closing", "serving"}, geoUsed' \in [ops : Nat, faults : Nat]
  PROVE  GeoInv'
<1>0. GeoTyped /\ BodiesServed /\ IncludesServed
  BY DEF GeoInv
<1>1. CASE change' = Quiet
  <2>1. site = AllSites /\ ListEnabled(rows) = {} /\ rows = country
    <3>1. CASE site = AllSites /\ ListEnabled(rows) = {}
      BY <1>0, <3>1, GeoAssumption DEF GeoTyped
    <3>2. CASE ~(site = AllSites /\ ListEnabled(rows) = {})
      <4> DEFINE c == [op |-> op, site |-> site, pc |-> "call", was |-> country, had |-> proxies,
                       tx |-> RenderConfiguration(rows, site, p)]
      <4>1. c \in Change
        BY <1>0, RenderTyped DEF GeoTyped, Change
      <4>2. change' = c
        BY <3>2 DEF ApplyAll
      <4> QED
        BY <1>1, <4>1, <4>2, GeoAssumption
    <3> QED
      BY <3>1, <3>2
  <2>2. GeoTyped'
    BY <1>0, <1>1 DEF GeoTyped, ApplyAll
  <2>3. Remembered' /\ ~Unanswered' /\ ~Unanswered
    BY <1>1 DEF Remembered, Unanswered
  <2>4. country' = country /\ geoFiles' = geoFiles /\ adrift' = adrift /\ loose' = loose /\ proxies' = p
    BY <2>1 DEF ApplyAll
  <2>5. \A s \in GeoSites : ~country[s].on
    BY <2>1 DEF ListEnabled
  <2>6. BodiesServed'
    BY <2>3, <2>4, <2>5 DEF BodiesServed, Held
  <2>7. IncludesServed'
    BY <1>0, <2>3, <2>4 DEF IncludesServed, Held
  <2> QED
    BY <2>2, <2>3, <2>6, <2>7 DEF GeoInv
<1>2. CASE change' # Quiet
  <2> DEFINE c == [op |-> op, site |-> site, pc |-> "call", was |-> country, had |-> proxies,
                   tx |-> RenderConfiguration(rows, site, p)]
  <2>1. change' = c /\ country' = rows /\ proxies' = p
    BY <1>2 DEF ApplyAll
  <2>2. c \in Change
    BY <1>0, RenderTyped DEF GeoTyped, Change
  <2>3. GeoTyped'
    BY <1>0, <2>1, <2>2 DEF GeoTyped, ApplyAll
  <2>4. Remembered'
    BY <2>1, <1>0 DEF Remembered, GeoTyped
  <2>5. Unanswered' /\ ~Unanswered
    BY <1>2, <2>1 DEF Unanswered
  <2>6. HeldProxies' = HeldProxies /\ \A s \in GeoSites : Held(s)' = Held(s)
    BY <2>1, <2>5 DEF HeldProxies, Held
  <2>7. geoFiles' = geoFiles /\ adrift' = adrift /\ loose' = loose
    BY DEF ApplyAll
  <2> QED
    BY <1>0, <2>3, <2>4, <2>6, <2>7 DEF GeoInv, BodiesServed, IncludesServed
<1> QED
  BY <1>1, <1>2

(* A row that is not on, or whose default answer and rules in force stay.    *)
LEMMA OnlyRowChanges ==
  ASSUME GeoInv, change = Quiet, NEW s \in GeoSites, NEW line \in SiteRow,
         line.on = country[s].on, line.on => line.rule = country[s].rule,
         OnlyRow(Row(s, line)), geoPhase' = geoPhase, geoUsed' \in [ops : Nat, faults : Nat]
  PROVE  GeoInv'
<1>0. GeoTyped /\ BodiesServed /\ IncludesServed
  BY DEF GeoInv
<1>1. /\ country' = Row(s, line) /\ proxies' = proxies /\ geoFiles' = geoFiles /\ change' = Quiet
      /\ adrift' = adrift /\ loose' = loose /\ strayGeo' = strayGeo
  BY DEF OnlyRow
<1>2. GeoTyped'
  BY <1>0, <1>1, RowTyped DEF GeoTyped
<1>3. ~Unanswered /\ ~Unanswered' /\ Remembered'
  BY <1>1 DEF Unanswered, Remembered
<1>4. ASSUME NEW r \in GeoSites
      PROVE  country'[r].on = country[r].on /\ (country[r].on => country'[r].rule = country[r].rule)
  <2>1. Row(s, line)[s] = line /\ (r # s => Row(s, line)[r] = country[r])
    BY <1>0, RowTyped
  <2>2. country'[s] = line /\ (r # s => country'[r] = country[r])
    BY <1>1, <2>1
  <2> QED
    BY <2>2
<1>5. BodiesServed'
  BY <1>0, <1>1, <1>3, <1>4 DEF BodiesServed, Held, HeldProxies
<1>6. IncludesServed'
  BY <1>0, <1>1, <1>3, <1>4 DEF IncludesServed, Held
<1> QED
  BY <1>2, <1>3, <1>5, <1>6 DEF GeoInv

-----------------------------------------------------------------------------
(* The operations.                                                           *)

LEMMA Requested ==
  ASSUME GeoTyped, Request
  PROVE  /\ change = Quiet /\ geoPhase' = geoPhase /\ geoUsed' \in [ops : Nat, faults : Nat]
         /\ geoPhase' \in {"up", "start", "closing", "serving"} /\ New \in Nat
BY DEF GeoTyped, Request, New

(* A row with some fields changed is a row.                                  *)
LEMMA RowsChanged ==
  ASSUME GeoTyped, NEW s \in GeoSites, NEW on \in BOOLEAN, NEW status \in Statuses,
         NEW rule \in Nat, NEW rules \in Nat
  PROVE  /\ [country[s] EXCEPT !.on = on, !.status = status] \in SiteRow
         /\ [country[s] EXCEPT !.rule = rule] \in SiteRow
         /\ [country[s] EXCEPT !.status = status] \in SiteRow
         /\ [[country[s] EXCEPT !.rule = rule] EXCEPT !.status = status] \in SiteRow
         /\ [country[s] EXCEPT !.rules = rules, !.rule = rule] \in SiteRow
         /\ country[s] \in SiteRow
BY DEF GeoTyped, SiteRow

LEMMA EnableKeeps ==
  ASSUME GeoInv, NEW s \in GeoSites, EnableSite(s)
  PROVE  GeoInv'
<1> DEFINE line == [country[s] EXCEPT !.on = TRUE, !.status = "pending"]
<1>0. GeoTyped /\ Request /\ ApplyAll("site", s, Row(s, line), proxies)
  BY DEF GeoInv, EnableSite
<1>1. line \in SiteRow /\ proxies \in Nat
  BY <1>0, RowsChanged DEF Statuses, GeoTyped
<1>2. Row(s, line) \in [GeoSites -> SiteRow] /\ \A r \in GeoSites \ {s} : Row(s, line)[r] = country[r]
  BY <1>0, <1>1, RowTyped
<1> HIDE DEF line
<1> QED
  BY <1>0, <1>1, <1>2, Requested, OperationBegins

LEMMA DisableKeeps ==
  ASSUME GeoInv, NEW s \in GeoSites, DisableSite(s)
  PROVE  GeoInv'
<1> DEFINE line == [country[s] EXCEPT !.on = FALSE, !.status = "pending"]
<1>0. GeoTyped /\ Request
  BY DEF GeoInv, DisableSite
<1>1. line \in SiteRow /\ proxies \in Nat /\ country \in [GeoSites -> SiteRow]
  BY <1>0, RowsChanged DEF Statuses, GeoTyped
<1>2. Row(s, line) \in [GeoSites -> SiteRow] /\ \A r \in GeoSites \ {s} : Row(s, line)[r] = country[r]
  BY <1>0, <1>1, RowTyped
<1>3. ApplyAll("site", s, Row(s, line), proxies) \/ ApplyAll("again", s, country, proxies)
  BY DEF DisableSite
<1> HIDE DEF line
<1> QED
  BY <1>0, <1>1, <1>2, <1>3, Requested, OperationBegins

LEMMA AccessKeeps ==
  ASSUME GeoInv, NEW s \in GeoSites, UpdateSiteAccess(s)
  PROVE  GeoInv'
<1> DEFINE plain == [country[s] EXCEPT !.rule = New]
           line == [plain EXCEPT !.status = "pending"]
<1>0. GeoTyped /\ Request
  BY DEF GeoInv, UpdateSiteAccess
<1>1. plain \in SiteRow /\ line \in SiteRow /\ plain.on = country[s].on /\ proxies \in Nat
  BY <1>0, Requested DEF GeoTyped, SiteRow, Statuses
<1>2. Row(s, line) \in [GeoSites -> SiteRow] /\ \A r \in GeoSites \ {s} : Row(s, line)[r] = country[r]
  BY <1>0, <1>1, RowTyped
<1>3. IF country[s].on THEN ApplyAll("site", s, Row(s, line), proxies) ELSE OnlyRow(Row(s, plain))
  BY DEF UpdateSiteAccess
<1> HIDE DEF line, plain
<1> QED
  BY <1>0, <1>1, <1>2, <1>3, Requested, OperationBegins, OnlyRowChanges

LEMMA RulesKeep ==
  ASSUME GeoInv, NEW s \in GeoSites, NEW rules \in Nat, NEW counts \in BOOLEAN,
         ChangeRules(s, rules, counts)
  PROVE  GeoInv'
<1> DEFINE line == [country[s] EXCEPT !.rules = rules, !.rule = IF counts THEN New ELSE @]
<1>0. GeoTyped /\ Request
  BY DEF GeoInv, ChangeRules
<1>1. country[s] \in SiteRow /\ New \in Nat /\ proxies \in Nat
  BY <1>0, Requested DEF GeoTyped
<1>2. line \in SiteRow /\ line.on = country[s].on /\ (~counts => line.rule = country[s].rule)
  BY <1>1 DEF SiteRow
<1>3. Row(s, line) \in [GeoSites -> SiteRow] /\ \A r \in GeoSites \ {s} : Row(s, line)[r] = country[r]
  BY <1>0, <1>2, RowTyped
<1>4. IF country[s].on /\ counts THEN ApplyAll("site", s, Row(s, line), proxies)
      ELSE OnlyRow(Row(s, line))
  BY DEF ChangeRules
<1> HIDE DEF line
<1> QED
  BY <1>0, <1>1, <1>2, <1>3, <1>4, Requested, OperationBegins, OnlyRowChanges

LEMMA SyncKeeps ==
  ASSUME GeoInv, NEW s \in GeoSites, SyncAfterIPChange(s)
  PROVE  GeoInv'
<1> DEFINE line == [country[s] EXCEPT !.rule = New]
<1>0. GeoTyped /\ Request /\ ApplyAll("sync", s, Row(s, line), proxies)
  BY DEF GeoInv, SyncAfterIPChange
<1>1. line \in SiteRow /\ proxies \in Nat /\ line.on = country[s].on
  BY <1>0, Requested DEF GeoTyped, SiteRow
<1>2. Row(s, line) \in [GeoSites -> SiteRow] /\ \A r \in GeoSites \ {s} : Row(s, line)[r] = country[r]
  BY <1>0, <1>1, RowTyped
<1>3. \A r \in GeoSites : Row(s, line)[r].on = country[r].on
  <2>1. Row(s, line)[s] = line
    BY <1>0, <1>1, RowTyped
  <2> QED
    BY <1>1, <1>2, <2>1
<1> HIDE DEF line
<1> QED
  BY <1>0, <1>1, <1>2, <1>3, Requested, OperationBegins

LEMMA SettingsKeep ==
  ASSUME GeoInv, UpdateTrustedProxies \/ InstallDatabase
  PROVE  GeoInv'
BY Requested, OperationBegins DEF GeoInv, UpdateTrustedProxies, InstallDatabase, GeoTyped

LEMMA ReconcileKeeps ==
  ASSUME GeoInv, Reconcile \/ ReconcileDone \/ \E s \in GeoSites : ReconcileDisabled(s)
  PROVE  GeoInv'
<1>0. GeoTyped
  BY DEF GeoInv
<1>1. CASE Reconcile
  BY <1>1, <1>0, OperationBegins DEF Reconcile, GeoTyped
<1>2. ASSUME NEW s \in GeoSites, ReconcileDisabled(s)
      PROVE  GeoInv'
  BY <1>2, <1>0, OperationBegins DEF ReconcileDisabled, GeoTyped
<1>3. CASE ReconcileDone
  BY <1>3 DEF ReconcileDone, GeoInv, GeoTyped, Remembered, BodiesServed, IncludesServed, Held,
              HeldProxies, Unanswered
<1> QED
  BY <1>1, <1>2, <1>3

-----------------------------------------------------------------------------
(* The transaction and its answer.                                           *)

LEMMA Committed ==
  ASSUME GeoInv, GeoCommit
  PROVE  GeoInv'
<1> DEFINE tx == change.tx
           on == ListEnabled(country)
<1>0. GeoTyped /\ Remembered /\ IncludesServed /\ change # Quiet /\ change \in Change
  BY GeoAssumption DEF GeoInv, GeoTyped, GeoCommit, Applying
<1>1. change.pc = "call" /\ change' = [change EXCEPT !.pc = "mark"] /\ change' \in Change
      /\ tx = RenderConfiguration(country, change.site, proxies) /\ tx \in GeoTransaction
  BY <1>0 DEF GeoCommit, Applying, Remembered, Change
<1>2. /\ geoFiles' = WrittenBy(tx) /\ adrift' = (adrift \ tx.on) \ PatchTargets(tx)
      /\ loose' = loose \ PatchTargets(tx) /\ country' = country /\ proxies' = proxies
      /\ strayGeo' = strayGeo /\ geoPhase' = geoPhase /\ geoUsed' = geoUsed
  BY DEF GeoCommit
<1>3. change' # Quiet /\ change'.pc = "mark" /\ ~Unanswered'
  BY <1>0, <1>1, GeoAssumption DEF Unanswered, Change
<1>4. GeoTyped'
  BY <1>0, <1>1, <1>2, WrittenTyped DEF GeoTyped
<1>5. Remembered'
  BY <1>0, <1>1, <1>2, <1>3 DEF Remembered, Change
<1>6. \A s \in GeoSites : Held(s)' = country[s] /\ HeldProxies' = proxies
  BY <1>2, <1>3 DEF Held, HeldProxies
<1>7. tx.on = on /\ \A s \in on : tx.rules[s] = country[s].rule /\ tx.proxies = proxies
  BY <1>1 DEF RenderConfiguration, ListEnabled
<1>8. BodiesServed'
  BY <1>6, <1>2, <1>7 DEF BodiesServed, ListEnabled, WrittenBy
<1>9. IncludesServed'
  <2> SUFFICES ASSUME NEW s \in GeoSites \ loose'
               PROVE  s \in geoFiles'.marked <=> country[s].on
    BY <1>6 DEF IncludesServed
  <2>1. geoFiles'.marked = (geoFiles.marked \ PatchTargets(tx)) \cup (PatchTargets(tx) \cap on)
    BY <1>2, <1>7 DEF WrittenBy, PatchAccessLimit
  <2>2. s \in on <=> country[s].on
    BY DEF ListEnabled
  <2>3. CASE s \in PatchTargets(tx)
    BY <2>1, <2>2, <2>3
  <2>4. CASE s \notin PatchTargets(tx)
    <3>1. s \notin loose /\ (s \in geoFiles'.marked <=> s \in geoFiles.marked)
      BY <1>2, <2>1, <2>4
    <3>2. Held(s).on <=> country[s].on
      <4>1. CASE change.site = AllSites
        BY <1>0, <4>1, GeoAssumption DEF Remembered, Held
      <4>2. CASE change.site # AllSites
        BY <1>1, <2>4, <4>2, <1>0 DEF PatchTargets, RenderConfiguration, Remembered, Held
      <4> QED
        BY <4>1, <4>2
    <3> QED
      BY <1>0, <3>1, <3>2 DEF IncludesServed
  <2> QED
    BY <2>3, <2>4
<1> QED
  BY <1>4, <1>5, <1>8, <1>9 DEF GeoInv

LEMMA RefusedKeeps ==
  ASSUME GeoInv, GeoRefused
  PROVE  GeoInv'
<1>0. GeoTyped /\ Remembered /\ change # Quiet /\ change \in Change /\ change.pc = "call"
  BY GeoAssumption DEF GeoInv, GeoTyped, GeoRefused, Applying
<1>1. change' = [change EXCEPT !.pc = "back"] /\ change' \in Change /\ change'.pc = "back"
  BY <1>0 DEF GeoRefused, Change
<1>2. /\ geoFiles' = geoFiles /\ adrift' = adrift /\ loose' = loose /\ country' = country
      /\ proxies' = proxies /\ strayGeo' = strayGeo /\ geoPhase' = geoPhase
      /\ geoUsed' \in [ops : Nat, faults : Nat]
  BY <1>0 DEF GeoRefused, GeoFault, GeoTyped
<1>3. Unanswered /\ Unanswered'
  BY <1>0, <1>1, GeoAssumption DEF Unanswered
<1>4. HeldProxies' = HeldProxies /\ \A s \in GeoSites : Held(s)' = Held(s)
  BY <1>0, <1>1, <1>3 DEF HeldProxies, Held, Change
<1>5. GeoTyped'
  BY <1>0, <1>1, <1>2 DEF GeoTyped
<1>6. Remembered'
  BY <1>0, <1>1, <1>2 DEF Remembered, Change
<1>7. BodiesServed' /\ IncludesServed'
  BY <1>2, <1>4 DEF GeoInv, BodiesServed, IncludesServed
<1> QED
  BY <1>5, <1>6, <1>7 DEF GeoInv

(* A site that the operation is not about is held to the same in any phase.  *)
LEMMA OutOfScope ==
  ASSUME GeoTyped, Remembered, change # Quiet, NEW s \in GeoSites \ Scope(change)
  PROVE  change.was[s] = country[s] /\ change.had = proxies
BY DEF Scope, Remembered, GeoTyped, Change

LEMMA LostKeeps ==
  ASSUME GeoInv, GeoLost
  PROVE  GeoInv'
<1>0. GeoTyped /\ Remembered /\ change # Quiet /\ change \in Change /\ change.pc \in {"call", "mark"}
  BY GeoAssumption DEF GeoInv, GeoTyped, GeoLost, Applying
<1>1. change' = [change EXCEPT !.pc = "back"] /\ change' \in Change /\ change'.pc = "back"
  BY <1>0 DEF GeoLost, Change
<1>2. /\ geoFiles' = geoFiles /\ country' = country /\ proxies' = proxies /\ geoPhase' = geoPhase
      /\ adrift' = adrift \cup Scope(change) /\ loose' = loose \cup Scope(change)
      /\ geoUsed' \in [ops : Nat, faults : Nat]
  BY <1>0 DEF GeoLost, Lost, GeoFault, GeoTyped
<1>3. strayGeo' \in GeoTransaction \cup {Quiet}
  BY <1>0 DEF GeoLost, GeoTyped, Change
<1>4. Scope(change) \subseteq GeoSites
  BY <1>0 DEF Scope, Change
<1>5. GeoTyped'
  BY <1>0, <1>1, <1>2, <1>3, <1>4 DEF GeoTyped
<1>6. Remembered'
  BY <1>0, <1>1, <1>2 DEF Remembered, Change
<1>7. ASSUME NEW s \in GeoSites \ Scope(change)
      PROVE  Held(s)' = Held(s) /\ HeldProxies' = HeldProxies
  BY <1>0, <1>7, OutOfScope, <1>1, <1>2 DEF Change, Held, HeldProxies
<1>8. BodiesServed' /\ IncludesServed'
  BY <1>2, <1>7 DEF GeoInv, BodiesServed, IncludesServed
<1> QED
  BY <1>5, <1>6, <1>8 DEF GeoInv

LEMMA CrashKeeps ==
  ASSUME GeoInv, GeoCrash
  PROVE  GeoInv'
<1>0. GeoTyped /\ Remembered /\ change # Quiet /\ change \in Change
  BY GeoAssumption DEF GeoInv, GeoTyped, GeoCrash
<1>1. change' = Quiet /\ ~Unanswered' /\ Remembered'
  BY DEF GeoCrash, Unanswered, Remembered
<1>2. /\ geoFiles' = geoFiles /\ country' = country /\ proxies' = proxies /\ geoPhase' = "start"
      /\ adrift' = adrift \cup Scope(change) /\ loose' = loose \cup Scope(change)
      /\ geoUsed' \in [ops : Nat, faults : Nat]
  BY <1>0 DEF GeoCrash, Lost, GeoFault, GeoTyped
<1>3. strayGeo' \in GeoTransaction \cup {Quiet}
  BY <1>0 DEF GeoCrash, GeoTyped, Change
<1>4. Scope(change) \subseteq GeoSites
  BY <1>0 DEF Scope, Change
<1>5. GeoTyped'
  BY <1>0, <1>1, <1>2, <1>3, <1>4 DEF GeoTyped
<1>6. ASSUME NEW s \in GeoSites \ Scope(change)
      PROVE  Held(s)' = Held(s) /\ HeldProxies' = HeldProxies
  BY <1>0, <1>1, <1>2, <1>6, OutOfScope DEF Held, HeldProxies
<1>7. BodiesServed' /\ IncludesServed'
  BY <1>2, <1>6 DEF GeoInv, BodiesServed, IncludesServed
<1> QED
  BY <1>1, <1>5, <1>7 DEF GeoInv

LEMMA MarkedKeeps ==
  ASSUME GeoInv, GeoMarked
  PROVE  GeoInv'
<1>0. GeoTyped /\ change # Quiet /\ change \in Change /\ change.pc = "mark"
  BY GeoAssumption DEF GeoInv, GeoTyped, GeoMarked, Applying
<1>1. /\ change' = Quiet /\ ~Unanswered' /\ ~Unanswered /\ Remembered' /\ geoFiles' = geoFiles
      /\ proxies' = proxies /\ strayGeo' = strayGeo /\ geoPhase' = geoPhase /\ adrift' = adrift
      /\ loose' = loose /\ geoUsed' = geoUsed
  BY <1>0 DEF GeoMarked, Unanswered, Remembered
<1>2. country' \in [GeoSites -> SiteRow]
      /\ \A s \in GeoSites : country'[s].on = country[s].on /\ country'[s].rule = country[s].rule
  BY <1>0 DEF GeoMarked, GeoTyped, SiteRow, Statuses
<1>3. GeoTyped'
  BY <1>0, <1>1, <1>2 DEF GeoTyped
<1>4. BodiesServed' /\ IncludesServed'
  BY <1>1, <1>2 DEF GeoInv, BodiesServed, IncludesServed, Held, HeldProxies
<1> QED
  BY <1>1, <1>3, <1>4 DEF GeoInv

(* What was changed for the operation is taken back with it, but for the     *)
(* exceptions of the access limits, which are in their own rows.             *)
LEMMA BackKeeps ==
  ASSUME GeoInv, GeoBack
  PROVE  GeoInv'
<1>0. GeoTyped /\ Remembered /\ change # Quiet /\ change \in Change /\ change.pc = "back" /\ Unanswered
  BY GeoAssumption DEF GeoInv, GeoTyped, GeoBack, Applying, Unanswered
<1>1. /\ change' = Quiet /\ ~Unanswered' /\ Remembered' /\ geoFiles' = geoFiles
      /\ strayGeo' = strayGeo /\ loose' = loose /\ geoUsed' = geoUsed
      /\ geoPhase' \in {"up", "start", "closing", "serving"}
      /\ adrift \subseteq adrift' /\ adrift' \subseteq GeoSites
      /\ (change.op = "sync" => change.site \in adrift')
  BY <1>0 DEF GeoBack, GeoTyped, Unanswered, Remembered
<1>2. proxies' = change.had /\ proxies' \in Nat
  BY <1>0 DEF GeoBack, SettingsBack, Remembered, Change
<1>3. ASSUME NEW s \in GeoSites
      PROVE  country'[s] \in SiteRow /\ country'[s].on = change.was[s].on
             /\ (s \notin adrift' => country'[s].rule = change.was[s].rule)
  <2>0. change.was[s] \in SiteRow /\ country[s] \in SiteRow
        /\ (s # change.site => country[s] = change.was[s])
    BY <1>0 DEF Change, GeoTyped, Remembered
  <2>1. CASE change.op = "site"
    BY <2>1, <1>0, <2>0 DEF GeoBack, RestoreSiteSettings, Row, GeoTyped, SiteRow, Statuses
  <2>2. CASE change.op = "start"
    BY <1>0, <2>2, <2>0 DEF Remembered, GeoBack, MarkSiteError, SiteRow, Statuses
  <2>3. CASE change.op = "sync"
    <3>1. country' = country
      BY <2>3 DEF GeoBack
    <3>2. CASE s = change.site
      BY <1>1, <2>3, <3>2, <1>0, <2>0, <3>1 DEF Remembered
    <3>3. CASE s # change.site
      BY <2>0, <3>1, <3>3
    <3> QED
      BY <3>2, <3>3
  <2>4. CASE change.op \notin {"site", "start", "sync"}
    BY <1>0, <2>0, <2>4 DEF GeoBack, Remembered
  <2> QED
    BY <2>1, <2>2, <2>3, <2>4
<1>4. country' \in [GeoSites -> SiteRow]
  BY <1>0, <1>3 DEF GeoBack, RestoreSiteSettings, Row, MarkSiteError, GeoTyped
<1>5. GeoTyped'
  BY <1>0, <1>1, <1>2, <1>4 DEF GeoTyped
<1>6. BodiesServed' /\ IncludesServed'
  BY <1>0, <1>1, <1>2, <1>3 DEF GeoInv, BodiesServed, IncludesServed, Held, HeldProxies
<1> QED
  BY <1>1, <1>5, <1>6 DEF GeoInv

LEMMA LateKeeps ==
  ASSUME GeoInv, GeoLate
  PROVE  GeoInv'
<1>0. GeoTyped /\ Remembered /\ strayGeo \in GeoTransaction
  BY DEF GeoInv, GeoTyped, GeoLate
<1>1. country' = country /\ proxies' = proxies /\ change' = change /\ geoPhase' = geoPhase
      /\ geoUsed' = geoUsed /\ strayGeo' = Quiet
  BY DEF GeoLate
<1>2. CASE UNCHANGED <<geoFiles, adrift, loose>>
  BY <1>0, <1>1, <1>2 DEF GeoInv, GeoTyped, Remembered, BodiesServed, IncludesServed, Held,
                           HeldProxies, Unanswered
<1>3. CASE geoFiles' = WrittenBy(strayGeo) /\ adrift' = GeoSites
           /\ loose' = loose \cup PatchTargets(strayGeo)
  <2>1. PatchTargets(strayGeo) \subseteq GeoSites
    BY <1>0 DEF PatchTargets, GeoTransaction
  <2>2. GeoTyped'
    BY <1>0, <1>1, <1>3, <2>1, WrittenTyped DEF GeoTyped
  <2>3. Remembered' /\ BodiesServed' /\ \A s \in GeoSites : Held(s)' = Held(s)
    BY <1>0, <1>1, <1>3 DEF Remembered, BodiesServed, Held, Unanswered
  <2>4. \A s \in GeoSites \ loose' : s \in geoFiles'.marked <=> s \in geoFiles.marked
    BY <1>3 DEF WrittenBy, PatchAccessLimit
  <2>5. IncludesServed'
    BY <1>3, <2>3, <2>4 DEF GeoInv, IncludesServed
  <2> QED
    BY <2>2, <2>3, <2>5 DEF GeoInv
<1> QED
  BY <1>2, <1>3 DEF GeoLate

-----------------------------------------------------------------------------
LEMMA GeoStarts == GeoInit => GeoInv
BY GeoAssumption DEF GeoInit, NoRules, GeoInv, GeoTyped, SiteRow, Statuses, Remembered, BodiesServed,
                     IncludesServed, Held, HeldProxies, Unanswered

LEMMA GeoSteps ==
  ASSUME GeoInv, [GeoNext]_geoVars
  PROVE  GeoInv'
<1>0. GeoTyped
  BY DEF GeoInv
<1>1. CASE UNCHANGED geoVars
  BY <1>1 DEF geoVars, GeoInv, GeoTyped, Remembered, BodiesServed, IncludesServed, Held, HeldProxies,
              Unanswered
<1>2. ASSUME NEW s \in GeoSites, EnableSite(s) \/ DisableSite(s) \/ UpdateSiteAccess(s) \/ SyncAfterIPChange(s)
      PROVE  GeoInv'
  BY <1>2, EnableKeeps, DisableKeeps, AccessKeeps, SyncKeeps
<1>3. ASSUME NEW s \in GeoSites, CreateRule(s) \/ UpdateRule(s) \/ DeleteRule(s) \/ ReorderRules(s)
      PROVE  GeoInv'
  <2>1. country[s].rules \in Nat
    BY <1>0 DEF GeoTyped, SiteRow
  <2>2. \E rules \in Nat, counts \in BOOLEAN : ChangeRules(s, rules, counts)
    <3>1. CASE CreateRule(s)
      BY <2>1, <3>1 DEF CreateRule
    <3>2. CASE UpdateRule(s)
      BY <2>1, <3>2 DEF UpdateRule
    <3>3. CASE DeleteRule(s)
      BY <2>1, <3>3 DEF DeleteRule
    <3>4. CASE ReorderRules(s)
      BY <2>1, <3>4 DEF ReorderRules
    <3> QED
      BY <1>3, <3>1, <3>2, <3>3, <3>4
  <2> QED
    BY <2>2, RulesKeep
<1>4. CASE UpdateTrustedProxies \/ InstallDatabase
  BY <1>4, SettingsKeep
<1>5. CASE Reconcile \/ ReconcileDone \/ \E s \in GeoSites : ReconcileDisabled(s)
  BY <1>5, ReconcileKeeps
<1>6. CASE GeoCommit \/ GeoRefused \/ GeoLost \/ GeoMarked \/ GeoBack \/ GeoLate \/ GeoCrash
  BY <1>6, Committed, RefusedKeeps, LostKeeps, MarkedKeeps, BackKeeps, LateKeeps, CrashKeeps
<1> QED
  BY <1>1, <1>2, <1>3, <1>4, <1>5, <1>6 DEF GeoNext

(* The invariant behind what follows: with no answer outstanding the files   *)
(* agree with the rows, with one outstanding they agree with the former ones, *)
(* which is what is gone back to.                                            *)
THEOREM GeoInvariant == GeoSpec => []GeoInv
BY GeoStarts, GeoSteps, PTL DEF GeoSpec

(* What a site's row calls applied is what nginx serves it, and a site       *)
(* includes its country rules just while they are in force (applyAll,        *)
(* internal/geoaccess/service.go), for any sites, operations and failures.   *)
THEOREM RowsAreServed == GeoSpec => []GeoRowsAreServed
<1>1. GeoInv => GeoRowsAreServed
  BY DEF GeoInv, BodiesServed, IncludesServed, Held, HeldProxies, Unanswered, GeoRowsAreServed
<1> QED
  BY <1>1, GeoInvariant, PTL

-----------------------------------------------------------------------------
(* SiteIncludes: what a site includes is what its rows say.                  *)

Updates == HotlinkUpdate \cup LocationUpdate

IncludesTyped ==
  /\ hotlinks \in [Rules -> HotlinkRow \cup {Absent}] /\ hotlinkFile \in Rendered
  /\ location \in Nat /\ recorded \in Nat \cup {Absent}
  /\ seen \in [Editors -> [text : Nat \cup {Absent}, hash : Nat \cup {Absent}, sure : BOOLEAN]]
  /\ writing \in Updates \cup {Absent} /\ strayUpdate \in Updates \cup {Absent}
  /\ apart \subseteq {"hotlinks", "location"} /\ blind \in BOOLEAN
  /\ includeUsed \in [ops : Nat, faults : Nat]

(* Hotlink rules: until the transaction is carried out the file is that of   *)
(* the rows that are gone back to, if any are.                               *)
OfHotlinks == writing # Absent /\ writing.file = "hotlinks"
Unwritten == OfHotlinks /\ writing.pc # "done"
TakenBack == [hotlinks EXCEPT ![writing.rule] = Absent]

HotlinksFollow ==
  /\ OfHotlinks => writing.write = Rendering(hotlinks)
  /\ \/ "hotlinks" \in apart
     \/ ~Unwritten /\ hotlinkFile = Rendering(hotlinks)
     \/ Unwritten /\ (writing.rule # Absent => hotlinkFile = Rendering(TakenBack))

(* Custom locations: the hash of the row is the file's, or nobody has        *)
(* recorded one and an editor that is sure shows the file as it is.  Between  *)
(* the transaction and its answer the row is behind.                          *)
Behind == WritingAt("done") /\ writing.file = "location"

HashFollows ==
  \/ "location" \in apart
  \/ ~Behind /\ recorded = location
  \/ ~Behind /\ recorded = Absent /\ \A e \in Editors : seen[e].sure => seen[e].text = location
  \/ Behind /\ location = writing.write

(* An editor that is sure shows the text of its hash, and a save of its text *)
(* replaces just that.                                                       *)
SureOfText == \A e \in Editors : seen[e].sure => seen[e].hash = seen[e].text /\ seen[e].text # Absent

ReplacesSeen ==
  WritingAt("call") /\ writing.file = "location" /\ "location" \notin apart
    => writing.base \in {Absent, location}

IncludesInv ==
  IncludesTyped /\ HotlinksFollow /\ HashFollows /\ SureOfText /\ ReplacesSeen /\ ~blind

-----------------------------------------------------------------------------
(* Hotlink rules.                                                            *)

LEMMA RenderingTyped ==
  ASSUME NEW rows \in [Rules -> HotlinkRow \cup {Absent}]
  PROVE  Rendering(rows) \in Rendered
BY DEF Rendering, Rendered, InForceOf, HotlinkRow

(* A row is written, and the file is to follow; a creation knows what to go  *)
(* back to.                                                                  *)
LEMMA RowWritten ==
  ASSUME IncludesInv, NEW r \in Rules, NEW line \in HotlinkRow \cup {Absent},
         NEW created \in {r, Absent}, created = r => hotlinks[r] = Absent,
         RenderAndApply([hotlinks EXCEPT ![r] = line], created)
  PROVE  IncludesInv'
<1> DEFINE rows == [hotlinks EXCEPT ![r] = line]
           u == [file |-> "hotlinks", pc |-> IF Overlap(rows) THEN "failed" ELSE "call",
                 rule |-> created, base |-> Absent, editor |-> Absent, write |-> Rendering(rows)]
<1>0. IncludesTyped /\ writing = Absent
  BY DEF IncludesInv, RenderAndApply, BeginUpdate
<1>1. rows \in [Rules -> HotlinkRow \cup {Absent}]
  BY <1>0 DEF IncludesTyped
<1>2. /\ hotlinks' = rows /\ writing' = u /\ hotlinkFile' = hotlinkFile /\ location' = location
      /\ recorded' = recorded /\ seen' = seen /\ blind' = blind /\ strayUpdate' = strayUpdate
      /\ apart' = apart
  BY DEF RenderAndApply, locationVars
<1>3. u \in HotlinkUpdate
  BY <1>1, RenderingTyped DEF HotlinkUpdate
<1>4. includeUsed' \in [ops : Nat, faults : Nat]
  BY <1>0 DEF RenderAndApply, BeginUpdate, IncludesTyped
<1>5. writing' # Absent
  BY <1>2, <1>3, IncludesAssumption
<1>6. IncludesTyped'
  BY <1>0, <1>1, <1>2, <1>3, <1>4 DEF IncludesTyped, Updates
<1>7. HotlinksFollow'
  BY <1>2, <1>5, <1>0, <1>1 DEF OfHotlinks, Unwritten, IncludesInv, HotlinksFollow, TakenBack,
     IncludesTyped
<1>8. HashFollows' /\ SureOfText' /\ ReplacesSeen' /\ ~blind'
  BY <1>0, <1>2, <1>5 DEF IncludesInv, HashFollows, SureOfText, ReplacesSeen, Behind, WritingAt
<1> QED
  BY <1>6, <1>7, <1>8 DEF IncludesInv

LEMMA HotlinkOperations ==
  ASSUME IncludesInv, NEW r \in Rules, CreateHotlink(r) \/ UpdateHotlink(r) \/ DeleteHotlink(r)
  PROVE  IncludesInv'
<1>0. RuleRow \subseteq HotlinkRow
  BY DEF IncludesInv, IncludesTyped, RuleRow, HotlinkRow, Text
<1>1. CASE CreateHotlink(r)
  BY <1>1, <1>0, RowWritten DEF CreateHotlink
<1>2. CASE UpdateHotlink(r)
  BY <1>2, <1>0, RowWritten, IncludesAssumption DEF UpdateHotlink
<1>3. CASE DeleteHotlink(r)
  BY <1>3, RowWritten, IncludesAssumption DEF DeleteHotlink
<1> QED
  BY <1>1, <1>2, <1>3

-----------------------------------------------------------------------------
(* Custom locations.                                                         *)

LEMMA FileShown ==
  ASSUME IncludesInv, NEW e \in Editors, GetFile(e)
  PROVE  IncludesInv'
<1>0. IncludesTyped
  BY DEF IncludesInv
<1>1. PICK text \in {0, location} :
        /\ seen' = [seen EXCEPT ![e] = [text |-> text, hash |-> Absent, sure |-> FALSE]]
        /\ includeUsed' = includeUsed \/ IncludeTrouble
        /\ UNCHANGED <<hotlinkVars, location, recorded, writing, strayUpdate, apart, blind>>
  BY DEF GetFile
<1>2. IncludesTyped'
  BY <1>0, <1>1 DEF IncludesTyped, IncludeTrouble, hotlinkVars
<1>3. \A d \in Editors : seen'[d].sure => seen'[d] = seen[d]
  BY <1>0, <1>1 DEF IncludesTyped
<1>4. HotlinksFollow' /\ ReplacesSeen' /\ ~blind'
  BY <1>1 DEF IncludesInv, HotlinksFollow, OfHotlinks, Unwritten, TakenBack, ReplacesSeen, WritingAt,
              hotlinkVars
<1>5. HashFollows' /\ SureOfText'
  BY <1>1, <1>3 DEF IncludesInv, HashFollows, SureOfText, Behind, WritingAt
<1> QED
  BY <1>2, <1>4, <1>5 DEF IncludesInv

LEMMA HashShown ==
  ASSUME IncludesInv, NEW e \in Editors, GetHash(e)
  PROVE  IncludesInv'
<1>0. IncludesTyped /\ seen[e].text # Absent
  BY DEF IncludesInv, GetHash
<1>1. UNCHANGED <<hotlinkVars, location, recorded, writing, strayUpdate, apart, blind>>
      /\ (includeUsed' = includeUsed \/ IncludeTrouble)
  BY DEF GetHash
<1>3. PICK hash \in Nat \cup {Absent} : Shown(e, hash)
  BY <1>0 DEF GetHash, OwnHash, IncludesTyped
<1> DEFINE sure == seen[e].text = location /\ hash = seen[e].text
<1>2. /\ seen' \in [Editors -> [text : Nat \cup {Absent}, hash : Nat \cup {Absent}, sure : BOOLEAN]]
      /\ \A d \in Editors \ {e} : seen'[d] = seen[d]
      /\ seen'[e].text = seen[e].text /\ seen'[e].hash = hash /\ seen'[e].sure = sure
  <2>1. sure \in BOOLEAN
    OBVIOUS
  <2>2. seen' = [seen EXCEPT ![e].hash = hash, ![e].sure = sure]
    BY <1>3 DEF Shown
  <2> HIDE DEF sure
  <2> QED
    BY <1>0, <2>1, <2>2 DEF IncludesTyped
<1>4. IncludesTyped'
  BY <1>0, <1>1, <1>2 DEF IncludesTyped, IncludeTrouble, hotlinkVars
<1>5. \A d \in Editors : d # e => seen'[d] = seen[d]
  BY <1>2
<1>6. seen'[e].sure => seen'[e].text = location /\ seen'[e].hash = seen'[e].text /\ seen'[e].text # Absent
  BY <1>0, <1>2 DEF IncludesTyped
<1>7. HotlinksFollow' /\ ReplacesSeen' /\ ~blind'
  BY <1>1 DEF IncludesInv, HotlinksFollow, OfHotlinks, Unwritten, TakenBack, ReplacesSeen, WritingAt,
              hotlinkVars
<1>8. SureOfText'
  BY <1>5, <1>6 DEF IncludesInv, SureOfText
<1>9. HashFollows'
  BY <1>1, <1>5, <1>6 DEF IncludesInv, HashFollows, Behind, WritingAt
<1> QED
  BY <1>4, <1>7, <1>8, <1>9 DEF IncludesInv

LEMMA SaveBegins ==
  ASSUME IncludesInv, NEW e \in Editors, NEW base \in Nat \cup {Absent}, BeginSave(e, base),
         "location" \notin apart => base \in {Absent, location}
  PROVE  IncludesInv'
<1> DEFINE u == [file |-> "location", pc |-> "call", rule |-> Absent, base |-> base,
                 editor |-> e, write |-> Text]
<1>0. IncludesTyped /\ writing = Absent
  BY DEF IncludesInv, BeginSave, BeginUpdate
<1>1. /\ writing' = u /\ hotlinks' = hotlinks /\ hotlinkFile' = hotlinkFile /\ location' = location
      /\ recorded' = recorded /\ seen' = seen /\ blind' = blind /\ strayUpdate' = strayUpdate
      /\ apart' = apart
  BY DEF BeginSave, hotlinkVars, locationVars
<1>2. u \in LocationUpdate
  BY <1>0 DEF LocationUpdate, Text, IncludesTyped
<1>3. includeUsed' \in [ops : Nat, faults : Nat]
  BY <1>0 DEF BeginSave, BeginUpdate, IncludesTyped
<1>4. IncludesTyped'
  BY <1>0, <1>1, <1>2, <1>3 DEF IncludesTyped, Updates
<1>5. ~OfHotlinks' /\ ~Behind' /\ ~OfHotlinks /\ ~Behind
  BY <1>0, <1>1 DEF OfHotlinks, Behind, WritingAt
<1>6. HotlinksFollow' /\ HashFollows' /\ SureOfText' /\ ~blind'
  BY <1>1, <1>5 DEF IncludesInv, HotlinksFollow, HashFollows, SureOfText, Unwritten
<1>7. ReplacesSeen'
  BY <1>1 DEF ReplacesSeen
<1> QED
  BY <1>4, <1>6, <1>7 DEF IncludesInv

LEMMA SaveOperations ==
  ASSUME IncludesInv, NEW e \in Editors, SaveLocation(e) \/ ApplyTemplate(e)
  PROVE  IncludesInv'
<1>0. IncludesTyped /\ HashFollows /\ SureOfText
  BY DEF IncludesInv
<1>1. CASE BeginSave(e, Absent)
  BY <1>1, SaveBegins
<1>2. CASE BeginSave(e, location)
  BY <1>0, <1>2, SaveBegins DEF IncludesTyped
<1>3. CASE seen[e].hash # Absent /\ ~Drifted(e) /\ seen[e].sure /\ BeginSave(e, seen[e].text)
  BY <1>3, <1>0, IncludesAssumption, SaveBegins DEF BeginSave, BeginUpdate, Behind, WritingAt,
     HashFollows, SureOfText, Drifted, IncludesTyped
<1> QED
  BY <1>1, <1>2, <1>3 DEF SaveLocation, ApplyTemplate

-----------------------------------------------------------------------------
(* The transaction and its answer.                                           *)

LEMMA CommitKeeps ==
  ASSUME IncludesInv, IncludeCommit
  PROVE  IncludesInv'
<1>0. IncludesTyped /\ writing \in Updates /\ writing # Absent /\ writing.pc = "call"
  BY DEF IncludesInv, IncludesTyped, IncludeCommit, WritingAt
<1>1. /\ writing' = [writing EXCEPT !.pc = "done"] /\ apart' = apart \ {writing.file}
      /\ hotlinks' = hotlinks /\ recorded' = recorded /\ seen' = seen
      /\ strayUpdate' = strayUpdate /\ includeUsed' = includeUsed
  BY DEF IncludeCommit
<1>2. writing' \in Updates /\ writing' # Absent /\ writing'.pc = "done"
      /\ writing'.file = writing.file /\ writing'.write = writing.write
  BY <1>1, IncludesAssumption, <1>0 DEF HotlinkUpdate, Updates, LocationUpdate
<1>3. blind' = FALSE
  BY <1>0 DEF IncludesInv, IncludeCommit, ReplacesSeen, WritingAt
<1>4. CASE writing \in HotlinkUpdate
  <2>1. writing.file = "hotlinks" /\ writing.write \in Rendered
    BY <1>4 DEF HotlinkUpdate
  <2>2. hotlinkFile' = writing.write /\ location' = location
    BY <2>1 DEF IncludeCommit, Write
  <2>3. IncludesTyped'
    BY <1>0, <1>1, <1>2, <1>3, <2>1, <2>2 DEF IncludesTyped
  <2>4. HotlinksFollow'
    BY <1>0, <1>1, <1>2, <2>1, <2>2 DEF IncludesInv, HotlinksFollow, OfHotlinks, Unwritten, Rendering, InForceOf
  <2>5. HashFollows' /\ SureOfText' /\ ReplacesSeen'
    BY <1>0, <1>1, <1>2, <2>1, <2>2 DEF IncludesInv, HashFollows, SureOfText, ReplacesSeen, Behind,
                                        WritingAt
  <2> QED
    BY <1>3, <2>3, <2>4, <2>5 DEF IncludesInv
<1>5. CASE writing \in LocationUpdate
  <2>1. writing.file = "location" /\ writing.write \in Nat
    BY <1>5 DEF LocationUpdate
  <2>2. location' = writing.write /\ hotlinkFile' = hotlinkFile
    BY <2>1 DEF IncludeCommit, Write
  <2>3. IncludesTyped'
    BY <1>0, <1>1, <1>2, <1>3, <2>1, <2>2 DEF IncludesTyped
  <2>4. HotlinksFollow'
    BY <1>0, <1>1, <1>2, <2>1, <2>2 DEF IncludesInv, HotlinksFollow, OfHotlinks, Unwritten, Rendering, InForceOf
  <2>5. HashFollows' /\ SureOfText' /\ ReplacesSeen'
    BY <1>0, <1>1, <1>2, <2>1, <2>2 DEF IncludesInv, HashFollows, SureOfText, ReplacesSeen, Behind,
                                        WritingAt
  <2> QED
    BY <1>3, <2>3, <2>4, <2>5 DEF IncludesInv
<1> QED
  BY <1>0, <1>4, <1>5 DEF Updates

LEMMA DoneKeeps ==
  ASSUME IncludesInv, IncludeDone
  PROVE  IncludesInv'
<1>0. IncludesTyped /\ writing \in Updates /\ writing # Absent /\ writing.pc = "done"
  BY DEF IncludesInv, IncludesTyped, IncludeDone, WritingAt
<1>1. writing' = Absent /\ hotlinks' = hotlinks /\ hotlinkFile' = hotlinkFile
      /\ location' = location /\ blind' = blind /\ strayUpdate' = strayUpdate
  BY DEF IncludeDone, hotlinkVars
<1>2. ~Behind' /\ ~OfHotlinks' /\ ~Unwritten' /\ ~Unwritten /\ ReplacesSeen' /\ ~blind'
  BY <1>0, <1>1 DEF IncludesInv, Behind, OfHotlinks, Unwritten, ReplacesSeen, WritingAt
<1>3. "hotlinks" \in apart => "hotlinks" \in apart'
  BY DEF IncludeDone
<1>4. HotlinksFollow'
  BY <1>1, <1>2, <1>3 DEF IncludesInv, HotlinksFollow, Rendering, InForceOf
<1>5. CASE writing.file = "hotlinks"
  BY <1>5, <1>1, <1>2, <1>0, <1>4 DEF IncludeDone, Behind, IncludesInv, HashFollows, SureOfText,
     IncludesTyped
<1>6. CASE writing.file # "hotlinks"
  <2> DEFINE sure == location = writing.write
             shown == [text |-> writing.write, hash |-> writing.write, sure |-> sure]
  <2>1. writing \in LocationUpdate /\ writing.write \in Nat /\ writing.editor \in Editors /\ Behind
    BY <1>0, <1>6 DEF Updates, HotlinkUpdate, LocationUpdate, Behind, WritingAt
  <2>2. seen' = [seen EXCEPT ![writing.editor] = shown]
    BY <1>6 DEF IncludeDone
  <2>3. \/ recorded' = writing.write /\ apart' = apart /\ includeUsed' = includeUsed
        \/ IncludeTrouble /\ apart' = apart \cup {"location"} /\ recorded' = recorded
    BY <1>6 DEF IncludeDone
  <2>4. IncludesTyped'
    BY <1>0, <2>1, <2>2, <2>3, <1>1 DEF IncludesTyped, IncludeTrouble
  <2>5. \A e \in Editors : seen'[e] \in {seen[e], shown}
    BY <1>0, <2>2 DEF IncludesTyped
  <2>6. SureOfText'
    BY <2>1, <2>5, IncludesAssumption DEF IncludesInv, SureOfText
  <2>7. HashFollows'
    BY <1>1, <1>2, <2>1, <2>3 DEF IncludesInv, HashFollows
  <2> QED
    BY <1>2, <1>4, <2>4, <2>6, <2>7 DEF IncludesInv
<1> QED
  BY <1>5, <1>6

LEMMA IncludeFailKeeps ==
  ASSUME IncludesInv, IncludeFails
  PROVE  IncludesInv'
<1>0. IncludesTyped /\ writing \in Updates /\ writing # Absent
  BY DEF IncludesInv, IncludesTyped, IncludeFails, WriteRefused, WritingAt
<1>1. /\ writing' = Absent /\ hotlinkFile' = hotlinkFile /\ location' = location
      /\ recorded' = recorded /\ seen' = seen /\ blind' = blind
      /\ hotlinks' = IF writing.rule = Absent THEN hotlinks ELSE TakenBack
      /\ apart' = IF Unknown \/ (writing.file = "hotlinks" /\ writing.rule = Absent)
                  THEN apart \cup {writing.file} ELSE apart
  BY DEF IncludeFails, WriteRefused, locationVars, TakenBack
<1>2. strayUpdate' \in Updates \cup {Absent} /\ includeUsed' \in [ops : Nat, faults : Nat]
  BY <1>0 DEF IncludeFails, WriteRefused, IncludeTrouble, IncludesTyped
<1>3. writing.file \in {"hotlinks", "location"} /\ writing.rule \in Rules \cup {Absent}
      /\ (writing.file = "location" => writing.rule = Absent)
  BY <1>0 DEF Updates, HotlinkUpdate, LocationUpdate
<1>4. IncludesTyped'
  BY <1>0, <1>1, <1>2, <1>3 DEF IncludesTyped, TakenBack
<1>5. ~Behind' /\ ~OfHotlinks' /\ ~Unwritten' /\ ReplacesSeen' /\ ~blind' /\ SureOfText'
  BY <1>1 DEF IncludesInv, Behind, OfHotlinks, Unwritten, ReplacesSeen, WritingAt, SureOfText
<1>6. writing.pc = "done" => apart' = apart \cup {writing.file}
  BY <1>0, <1>1 DEF Unknown, WritingAt
<1>7. apart \subseteq apart'
  BY <1>1
<1>8. HotlinksFollow'
  <2>1. CASE "hotlinks" \in apart'
    BY <1>5, <2>1 DEF HotlinksFollow
  <2>2. CASE "hotlinks" \notin apart' /\ writing.file = "hotlinks"
    BY <1>1, <1>6, <2>2, <1>0, <1>7, <1>5 DEF Unwritten, OfHotlinks, IncludesInv, HotlinksFollow,
       Rendering, InForceOf
  <2>3. CASE "hotlinks" \notin apart' /\ writing.file = "location"
    BY <1>1, <1>3, <2>3, <1>5, <1>7 DEF Unwritten, OfHotlinks, IncludesInv, HotlinksFollow,
       Rendering, InForceOf
  <2> QED
    BY <1>3, <2>1, <2>2, <2>3
<1>9. HashFollows'
  BY <1>6, <1>1, <1>5, <1>7 DEF HashFollows, Behind, WritingAt, IncludesInv
<1> QED
  BY <1>4, <1>5, <1>8, <1>9 DEF IncludesInv

LEMMA IncludeCrashKeeps ==
  ASSUME IncludesInv, IncludeCrash
  PROVE  IncludesInv'
<1>0. IncludesTyped /\ writing \in Updates /\ writing # Absent
  BY DEF IncludesInv, IncludesTyped, IncludeCrash
<1>1. /\ writing' = Absent /\ hotlinks' = hotlinks /\ hotlinkFile' = hotlinkFile
      /\ location' = location /\ recorded' = recorded /\ seen' = seen /\ blind' = blind
      /\ apart' = apart \cup {writing.file}
  BY DEF IncludeCrash, hotlinkVars, locationVars
<1>2. strayUpdate' \in Updates \cup {Absent} /\ includeUsed' \in [ops : Nat, faults : Nat]
  BY <1>0 DEF IncludeCrash, IncludeTrouble, IncludesTyped
<1>3. writing.file \in {"hotlinks", "location"}
  BY <1>0 DEF Updates, HotlinkUpdate, LocationUpdate
<1>4. IncludesTyped'
  BY <1>0, <1>1, <1>2, <1>3 DEF IncludesTyped
<1>5. ~Behind' /\ ~OfHotlinks' /\ ~Unwritten' /\ ReplacesSeen' /\ ~blind' /\ SureOfText'
  BY <1>1 DEF IncludesInv, Behind, OfHotlinks, Unwritten, ReplacesSeen, WritingAt, SureOfText
<1>6. HotlinksFollow' /\ HashFollows'
  BY <1>1, <1>3, <1>5 DEF IncludesInv, HotlinksFollow, HashFollows, Unwritten, OfHotlinks, Behind,
                          WritingAt, Rendering, InForceOf
<1> QED
  BY <1>4, <1>5, <1>6 DEF IncludesInv

(* What is written late sets its file apart from the rows.                   *)
LEMMA LateWriteKeeps ==
  ASSUME IncludesInv, IncludeLate
  PROVE  IncludesInv'
<1>0. IncludesTyped /\ strayUpdate \in Updates
  BY DEF IncludesInv, IncludesTyped, IncludeLate
<1>1. /\ writing' = writing /\ hotlinks' = hotlinks /\ recorded' = recorded /\ seen' = seen
      /\ blind' = blind /\ strayUpdate' = Absent /\ includeUsed' = includeUsed
      /\ apart' = apart \cup {strayUpdate.file} /\ Write(strayUpdate)
  BY DEF IncludeLate
<1>2. \/ strayUpdate.file = "hotlinks" /\ strayUpdate.write \in Rendered
      \/ strayUpdate.file = "location" /\ strayUpdate.write \in Nat
  BY <1>0 DEF Updates, HotlinkUpdate, LocationUpdate
<1>3. \/ "hotlinks" \in apart' /\ hotlinkFile' \in Rendered /\ location' = location
      \/ "location" \in apart' /\ location' \in Nat /\ hotlinkFile' = hotlinkFile
  BY <1>1, <1>2 DEF Write
<1>4. IncludesTyped'
  BY <1>0, <1>1, <1>2, <1>3 DEF IncludesTyped
<1>5. OfHotlinks' = OfHotlinks /\ Unwritten' = Unwritten /\ Behind' = Behind /\ TakenBack' = TakenBack
  BY <1>1 DEF OfHotlinks, Unwritten, Behind, WritingAt, TakenBack
<1>6. Rendering(hotlinks)' = Rendering(hotlinks) /\ Rendering(TakenBack)' = Rendering(TakenBack)
  BY <1>1, <1>5 DEF Rendering, InForceOf
<1>7. HotlinksFollow' /\ HashFollows'
  BY <1>1, <1>3, <1>5, <1>6 DEF IncludesInv, HotlinksFollow, HashFollows
<1>8. SureOfText' /\ ReplacesSeen' /\ ~blind'
  BY <1>1, <1>3 DEF IncludesInv, SureOfText, ReplacesSeen, WritingAt
<1> QED
  BY <1>4, <1>7, <1>8 DEF IncludesInv

LEMMA OtherEditKeeps ==
  ASSUME IncludesInv, OtherEdit
  PROVE  IncludesInv'
<1>0. IncludesTyped /\ writing = Absent /\ writing' = Absent
  BY DEF IncludesInv, OtherEdit, BeginUpdate
<1>1. /\ location' = Text /\ apart' = apart \cup {"location"} /\ hotlinks' = hotlinks
      /\ hotlinkFile' = hotlinkFile /\ recorded' = recorded /\ seen' = seen /\ blind' = blind
      /\ strayUpdate' = strayUpdate
  BY DEF OtherEdit, hotlinkVars
<1>2. includeUsed' \in [ops : Nat, faults : Nat] /\ Text \in Nat
  BY <1>0 DEF OtherEdit, BeginUpdate, IncludesTyped, Text
<1>3. IncludesTyped'
  BY <1>0, <1>1, <1>2 DEF IncludesTyped
<1>4. HotlinksFollow' /\ HashFollows' /\ SureOfText' /\ ReplacesSeen' /\ ~blind'
  BY <1>0, <1>1 DEF IncludesInv, HotlinksFollow, HashFollows, SureOfText, ReplacesSeen, WritingAt,
                    OfHotlinks, Unwritten, Rendering, InForceOf
<1> QED
  BY <1>3, <1>4 DEF IncludesInv

-----------------------------------------------------------------------------
LEMMA IncludesStart == IncludesInit => IncludesInv
<1> SUFFICES ASSUME IncludesInit
             PROVE  IncludesInv
  OBVIOUS
<1>1. writing = Absent /\ Rendering(hotlinks) = {}
  BY DEF IncludesInit, Rendering, InForceOf
<1>2. IncludesTyped
  BY DEF IncludesInit, IncludesTyped, Rendered
<1>3. HotlinksFollow
  BY <1>1 DEF IncludesInit, HotlinksFollow, OfHotlinks, Unwritten
<1>4. HashFollows /\ SureOfText /\ ReplacesSeen /\ ~blind
  BY <1>1 DEF IncludesInit, HashFollows, SureOfText, ReplacesSeen, Behind, WritingAt
<1> QED
  BY <1>2, <1>3, <1>4 DEF IncludesInv

LEMMA IncludesSteps ==
  ASSUME IncludesInv, [IncludesNext]_includeVars
  PROVE  IncludesInv'
<1>1. CASE UNCHANGED includeVars
  BY <1>1 DEF includeVars, IncludesInv, IncludesTyped, HotlinksFollow, HashFollows, SureOfText,
              ReplacesSeen, OfHotlinks, Unwritten, TakenBack, Behind, WritingAt
<1>2. ASSUME NEW r \in Rules, CreateHotlink(r) \/ UpdateHotlink(r) \/ DeleteHotlink(r)
      PROVE  IncludesInv'
  BY <1>2, HotlinkOperations
<1>3. ASSUME NEW e \in Editors, GetFile(e) \/ GetHash(e) \/ SaveLocation(e) \/ ApplyTemplate(e)
      PROVE  IncludesInv'
  BY <1>3, FileShown, HashShown, SaveOperations
<1>4. CASE IncludeCommit \/ IncludeDone \/ IncludeFails \/ IncludeCrash \/ IncludeLate \/ OtherEdit
  BY <1>4, CommitKeeps, DoneKeeps, IncludeFailKeeps, IncludeCrashKeeps, LateWriteKeeps, OtherEditKeeps
<1> QED
  BY <1>1, <1>2, <1>3, <1>4 DEF IncludesNext

(* The invariant behind what follows: what a refusal goes back to is what    *)
(* the file holds, the hash is the file's but for a save under way, and an   *)
(* editor whose save would be taken shows the text it would replace.         *)
THEOREM IncludesInvariant == IncludesSpec => []IncludesInv
BY IncludesStart, IncludesSteps, PTL DEF IncludesSpec

(* Hotlink rules and custom locations are served as the rows say (hotlink    *)
(* and rewrite services), and no save that was compared with the row of its   *)
(* hash replaces what its editor did not show, for any rules, editors,       *)
(* requests and failures.                                                    *)
THEOREM IncludesCorrect == IncludesSpec => []IncludesFollowRows
<1>1. IncludesInv => IncludesFollowRows
  BY DEF IncludesInv, HotlinksFollow, HashFollows, OfHotlinks, Unwritten, Behind, WritingAt,
         IncludesFollowRows
<1> QED
  BY <1>1, IncludesInvariant, PTL

-----------------------------------------------------------------------------
(* Of finitely many there is one that is least.                              *)
LEMMA Least ==
  ASSUME NEW B, IsFiniteSet(B), B # {}, NEW f \in [B -> Int]
  PROVE  \E b \in B : \A c \in B : f[b] <= f[c]
<1> DEFINE Below(b) == {c \in B : f[c] <= f[b]}
           Lower == {U \in SUBSET B : U # {} /\ \A b \in U : Below(b) \subseteq U}
<1>1. IsWellFoundedOn(StrictSubsetOrdering(B), SUBSET B)
  BY FS_StrictSubsetOrderingWellFounded, FS_FiniteSubsetsOfFinite
<1>2. PICK U \in Lower : \A V \in Lower : <<V, U>> \notin StrictSubsetOrdering(B)
  <2>1. B \in Lower /\ Lower \subseteq SUBSET B
    OBVIOUS
  <2> HIDE DEF Lower
  <2>2. QED
    BY <1>1, <2>1, WFMin
<1>3. PICK b \in U : TRUE
  BY <1>2
<1>4. Below(b) \in Lower
  BY <1>2, <1>3
<1>5. \A c \in U : Below(c) = U
  <2>1. SUFFICES ASSUME NEW c \in U PROVE Below(c) = U
    OBVIOUS
  <2>2. c \in Below(c) /\ Below(c) \in SUBSET B /\ Below(c) \subseteq U /\ U \in SUBSET B
    BY <1>2, <2>1
  <2>3. \A d \in Below(c) : Below(d) \subseteq Below(c)
    BY <1>2, <2>1
  <2>4. Below(c) \in Lower
    BY <2>2, <2>3
  <2>5. QED
    BY <1>2, <2>2, <2>4 DEF StrictSubsetOrdering
<1>6. ASSUME NEW c \in B PROVE f[b] <= f[c]
  <2>1. b \in B /\ U \in SUBSET B
    BY <1>2, <1>3
  <2>2. CASE f[c] <= f[b]
    BY <1>5, <1>3, <2>2
  <2>3. CASE ~(f[c] <= f[b])
    BY <2>1, <2>3
  <2>4. QED
    BY <2>2, <2>3
<1>7. QED
  BY <1>2, <1>3, <1>6

-----------------------------------------------------------------------------
(* SiteBackups: a backup shown as successful has its archive.                *)

AgentRecord ==
  [pc : {"read", "rename", "lock", "extract", "back"}, b : Backups, todo : SUBSET Parts, got : ArchiveContent,
   scope : SUBSET Parts, created : SUBSET Parts, before : ArchiveContent, left : BOOLEAN,
   ans : {"none", "ok", "failed", "undone", "stuck"}]
Used == [jobs : Nat, faults : Nat, edits : Nat, raced : BOOLEAN]

(* Whatever a goroutine works on has a row.                                  *)
Placed(r, rows) ==
  /\ r.pc \in {"fetch", "remove", "lease", "call", "mark", "swept"} => r.b \in Backups /\ rows[r.b] # NoBackup
  /\ \A b \in r.list : rows[b] # NoBackup

WorkTyped ==
  /\ row \in [Backups -> BackupRow \cup {NoBackup}]
  /\ archive \in [Backups -> ArchiveContent \cup {NoBackup}]
  /\ files \in ArchiveContent
  /\ proc \in [Workers -> JobRecord \cup {NoBackup}]
  /\ agent \in [Workers -> AgentRecord \cup {NoBackup}]
  /\ used \in Used
  /\ \A t \in Workers : proc[t] # NoBackup => Placed(proc[t], row)

Calm == ~used.raced /\ used.faults = 0

(* A backup that was made or not, and a goroutine that makes one.            *)
Settled(rows, b) == rows[b] # NoBackup /\ rows[b].status # "pending"
Making(r) == r # NoBackup /\ r.op \in {"create", "scheduled"} /\ r.pc \in {"lease", "call", "mark"}

(* What is removed was settled before, and the row of what is made is        *)
(* pending until the agent's answer is recorded.                             *)
Removes(r, rows) ==
  r # NoBackup =>
    /\ \A b \in r.list : Settled(rows, b)
    /\ r.pc = "swept" => Settled(rows, r.b)
    /\ r.op = "delete" => r.b \in Backups /\ rows[r.b] # NoBackup /\ r.pc \in {"remove", "mark", "end"}
    /\ r.op = "delete" /\ r.pc = "mark" => Settled(rows, r.b)

Makes(r, a, rows, stored) ==
  Making(r) =>
    /\ rows[r.b] # NoBackup /\ rows[r.b].status = "pending"
    /\ r.pc = "call" =>
         /\ a \in AgentRecord /\ ~a.left /\ a.b = r.b /\ a.pc \in {"read", "rename"}
         /\ a.ans = "ok" => stored[r.b] # NoBackup
    /\ r.pc = "mark" /\ r.ok => stored[r.b] # NoBackup

Works(t) == Removes(proc[t], row) /\ Makes(proc[t], agent[t], row, archive)

Apart ==
  \A t, u \in Workers : Making(proc[t]) /\ Making(proc[u]) /\ proc[t].b = proc[u].b => t = u

BackupsInv ==
  /\ WorkTyped
  /\ Calm => (\A t \in Workers : Works(t)) /\ Apart /\ SuccessHasArchive

-----------------------------------------------------------------------------

(* The rows go on, and no archive of a pending backup goes away.             *)
RowsGoOn(t) ==
  \A b \in Backups : row[b] # NoBackup =>
    /\ row'[b] # NoBackup
    /\ row[b].status # "pending" => row'[b].status # "pending"
    /\ row[b].status = "pending" /\ row'[b].status # "pending" => Making(proc[t]) /\ proc[t].b = b
ArchivesGoOn ==
  \A b \in Backups : archive[b] # NoBackup /\ archive'[b] = NoBackup => Settled(row, b)
OthersStay(t) == \A u \in Workers \ {t} : proc'[u] = proc[u] /\ agent'[u] = agent[u]

LEMMA WorkerSteps ==
  ASSUME BackupsInv, WorkTyped', NEW t \in Workers, OthersStay(t),
         Calm' => /\ Calm /\ RowsGoOn(t) /\ ArchivesGoOn
                  /\ Works(t)'
                  /\ \A u \in Workers \ {t} : Making(proc'[t]) /\ Making(proc[u]) => proc'[t].b # proc[u].b
                  /\ SuccessHasArchive'
  PROVE  BackupsInv'
<1>1. SUFFICES ASSUME Calm' PROVE (\A u \in Workers : Works(u)') /\ Apart'
  BY DEF BackupsInv
<1>2. /\ Calm /\ RowsGoOn(t) /\ ArchivesGoOn
      /\ (\A u \in Workers : Works(u)) /\ Apart
  BY <1>1 DEF BackupsInv
<1>3. ASSUME NEW u \in Workers \ {t} PROVE Works(u)'
  <2>1. PICK r \in JobRecord \cup {NoBackup} : r = proc[u]
    BY DEF BackupsInv, WorkTyped
  <2>2. PICK a \in AgentRecord \cup {NoBackup} : a = agent[u]
    BY DEF BackupsInv, WorkTyped
  <2>3. proc'[u] = r /\ agent'[u] = a
    BY <2>1, <2>2 DEF OthersStay
  <2>4. \A b \in Backups : Settled(row, b) => Settled(row', b)
    BY <1>2 DEF RowsGoOn, Settled
  <2>5. Removes(r, row) /\ Makes(r, a, row, archive)
    BY <1>2, <2>1, <2>2 DEF Works
  <2>6. r # NoBackup => /\ r.list \in SUBSET Backups
                        /\ r.pc \in {"swept", "lease", "call", "mark"} => r.b \in Backups
    BY <2>1 DEF BackupsInv, WorkTyped, JobRecord, Placed
  <2>7. Removes(r, row')
    BY <1>2, <2>4, <2>5, <2>6 DEF Removes, RowsGoOn
  <2>8. Making(r) => /\ r.b \in Backups
                     /\ row'[r.b] # NoBackup /\ row'[r.b].status = "pending"
    BY <1>2, <2>1, <2>5, <2>6 DEF Apart, Makes, Making, RowsGoOn
  <2>9. Making(r) => (archive[r.b] # NoBackup => archive'[r.b] # NoBackup)
    BY <1>2, <2>5, <2>8 DEF ArchivesGoOn, Settled, Makes
  <2>10. Makes(r, a, row', archive')
    BY <2>5, <2>8, <2>9 DEF Makes
  <2>11. QED
    BY <2>3, <2>7, <2>10 DEF Works
<1>4. \A u \in Workers : Works(u)'
  BY <1>1, <1>3
<1>5. Apart'
  BY <1>2, <1>1 DEF Apart, OthersStay
<1>6. QED
  BY <1>4, <1>5

(* The goroutine has no part in what the property says.                      *)
LEMMA StillSuccessful ==
  ASSUME BackupsInv, Calm, UNCHANGED <<row, archive>>, NEW t \in Workers, OthersStay(t),
         proc[t] # NoBackup => proc[t].pc \notin {"mark", "swept"}
  PROVE  SuccessHasArchive'
BY DEF SuccessHasArchive, WithStatus, Running, BackupsInv, Calm, OthersStay

-----------------------------------------------------------------------------

Pcs == {"row", "fetch", "remove", "lease", "call", "mark", "list", "sweep", "swept", "finish", "end"}

LEMMA FaultCounts ==
  ASSUME WorkTyped, Fault
  PROVE  used' \in Used /\ ~Calm'
BY DEF WorkTyped, Used, Fault, Calm

LEMMA BeginCounts ==
  ASSUME WorkTyped, NEW t \in Workers, NEW r \in JobRecord, Begin(t, r), Placed(r, row)
  PROVE  /\ proc[t] = NoBackup /\ proc'[t] = r
         /\ \A u \in Workers \ {t} : proc'[u] = proc[u]
         /\ proc' \in [Workers -> JobRecord \cup {NoBackup}]
         /\ \A u \in Workers : proc'[u] # NoBackup => Placed(proc'[u], row)
         /\ used' \in Used /\ (Calm' => Calm)
BY DEF Begin, Workers, WorkTyped, Used, Calm

LEMMA GotoMoves ==
  ASSUME WorkTyped, NEW t \in Workers, proc[t] # NoBackup, NEW pc \in Pcs, NEW ok \in BOOLEAN, Goto(t, pc, ok),
         pc \in {"fetch", "remove", "lease", "call", "mark", "swept"} =>
           proc[t].b \in Backups /\ row[proc[t].b] # NoBackup
  PROVE  /\ proc'[t] \in JobRecord /\ proc'[t] # NoBackup
         /\ proc'[t].op = proc[t].op /\ proc'[t].b = proc[t].b /\ proc'[t].list = proc[t].list
         /\ proc'[t].pc = pc /\ proc'[t].ok = ok
         /\ \A u \in Workers \ {t} : proc'[u] = proc[u]
         /\ proc' \in [Workers -> JobRecord \cup {NoBackup}]
         /\ \A u \in Workers : proc'[u] # NoBackup => Placed(proc'[u], row)
<1>1. PICK r \in JobRecord : r = proc[t]
  BY DEF WorkTyped
<1>2. PICK q : q = [r EXCEPT !.pc = pc, !.ok = ok]
  OBVIOUS
<1>3. /\ q \in JobRecord /\ q.op = r.op /\ q.b = r.b /\ q.list = r.list
      /\ q.pc = pc /\ q.ok = ok
  BY <1>2 DEF JobRecord, Pcs
<1>4. proc' = [proc EXCEPT ![t] = q]
  BY <1>1, <1>2 DEF Goto, WorkTyped
<1>5. QED
  BY <1>1, <1>3, <1>4, RecordAssumption DEF WorkTyped, Placed

LEMMA ReplyMoves ==
  ASSUME WorkTyped, NEW t \in Workers, agent[t] # NoBackup, NEW ans \in {"ok", "failed", "undone", "stuck"},
         Reply(t, ans)
  PROVE  /\ agent' \in [Workers -> AgentRecord \cup {NoBackup}]
         /\ \A u \in Workers \ {t} : agent'[u] = agent[u]
         /\ ~agent[t].left => /\ agent'[t] \in AgentRecord /\ ~agent'[t].left /\ agent'[t].b = agent[t].b
                              /\ agent'[t].pc = agent[t].pc /\ agent'[t].ans = ans
BY DEF WorkTyped, AgentRecord, Reply

(* A goroutine goes on, with no part in what the property says.              *)
LEMMA Onward ==
  ASSUME BackupsInv, WorkTyped', UNCHANGED <<row, archive>>, NEW t \in Workers, OthersStay(t),
         Calm' => /\ Calm
                  /\ proc[t] # NoBackup => proc[t].pc \notin {"mark", "swept"}
                  /\ Works(t)'
                  /\ Making(proc'[t]) => Making(proc[t]) /\ proc'[t].b = proc[t].b
  PROVE  BackupsInv'
BY StillSuccessful, WorkerSteps DEF RowsGoOn, ArchivesGoOn, BackupsInv, Apart

LEMMA CreateBegins ==
  ASSUME BackupsInv, NEW t \in Workers, StartCreate(t) \/ RunScheduled(t)
  PROVE  BackupsInv'
<1>1. PICK r \in JobRecord : Begin(t, r) /\ r.op \in {"create", "scheduled"} /\ r.pc = "row" /\ r.list = {}
  <2>1. CASE StartCreate(t)
    <3>1. PICK k \in Tasks, type \in Made :
            Begin(t, Process("create", "row", NoBackup, type, {}, k))
      BY <2>1 DEF StartCreate
    <3>2. PICK r : r = Process("create", "row", NoBackup, type, {}, k)
      OBVIOUS
    <3>3. r \in JobRecord /\ r.op = "create" /\ r.pc = "row" /\ r.list = {}
      BY <3>2, JobsAssumption DEF Process, JobRecord
    <3>4. QED
      BY <3>1, <3>2, <3>3
  <2>2. CASE RunScheduled(t)
    <3>2. PICK r : r = Process("scheduled", "row", NoBackup, "full", {}, NoBackup)
      OBVIOUS
    <3>3. r \in JobRecord /\ r.op = "scheduled" /\ r.pc = "row" /\ r.list = {}
      BY <3>2 DEF Process, JobRecord
    <3>4. QED
      BY <2>2, <3>2, <3>3 DEF RunScheduled
  <2>3. QED
    BY <2>1, <2>2
<1>2. UNCHANGED <<row, archive, files, agent>>
  BY DEF StartCreate, RunScheduled
<1>3. Placed(r, row)
  BY <1>1 DEF Placed
<1>4. /\ proc[t] = NoBackup /\ proc'[t] = r
      /\ \A u \in Workers \ {t} : proc'[u] = proc[u]
      /\ proc' \in [Workers -> JobRecord \cup {NoBackup}]
      /\ \A u \in Workers : proc'[u] # NoBackup => Placed(proc'[u], row)
      /\ used' \in Used /\ (Calm' => Calm)
  BY <1>1, <1>3, BeginCounts DEF BackupsInv
<1>5. WorkTyped'
  BY <1>2, <1>4 DEF BackupsInv, WorkTyped, Placed
<1>6. Works(t)' /\ ~Making(proc'[t])
  BY <1>1, <1>4 DEF Works, Removes, Makes, Making
<1>7. QED
  BY <1>2, <1>4, <1>5, <1>6, Onward DEF OthersStay

LEMMA RestoreBegins ==
  ASSUME BackupsInv, NEW t \in Workers, StartRestore(t) \/ StartDelete(t)
  PROVE  BackupsInv'
<1>1. PICK r \in JobRecord :
        /\ Begin(t, r) /\ Placed(r, row) /\ r.list = {}
        /\ \/ r.op = "restore" /\ r.pc = "fetch"
           \/ r.op = "delete" /\ r.pc = "remove" /\ r.b \in Backups /\ row[r.b] # NoBackup
  <2>1. CASE StartRestore(t)
    <3>1. PICK b \in Backups, k \in Tasks, scope \in Chosen :
            /\ Live(b)
            /\ Begin(t, Process("restore", "fetch", b, row[b].type, Normalized(scope, row[b].type), k))
      BY <2>1 DEF StartRestore
    <3>2. row[b].type \in {"config", "ssl", "root", "full"} /\ row[b] # NoBackup
      BY <3>1 DEF Live, BackupsInv, WorkTyped, BackupRow
    <3>3. Normalized(scope, row[b].type) \in SUBSET Parts
      BY <3>2, JobsAssumption DEF Normalized, PartsOf, Parts
    <3>4. PICK r : r = Process("restore", "fetch", b, row[b].type, Normalized(scope, row[b].type), k)
      OBVIOUS
    <3>5. r \in JobRecord /\ r.op = "restore" /\ r.pc = "fetch" /\ r.list = {} /\ r.b = b
      BY <3>2, <3>3, <3>4 DEF Process, JobRecord
    <3>6. QED
      BY <3>1, <3>2, <3>4, <3>5 DEF Placed
  <2>2. CASE StartDelete(t)
    <3>1. PICK b \in Backups : Live(b) /\ Begin(t, Process("delete", "remove", b, row[b].type, {}, NoBackup))
      BY <2>2 DEF StartDelete
    <3>2. row[b] # NoBackup /\ row[b].type \in {"config", "ssl", "root", "full"}
      BY <3>1 DEF Live, BackupsInv, WorkTyped, BackupRow
    <3>3. PICK r : r = Process("delete", "remove", b, row[b].type, {}, NoBackup)
      OBVIOUS
    <3>4. r \in JobRecord /\ r.op = "delete" /\ r.pc = "remove" /\ r.list = {} /\ r.b = b
      BY <3>2, <3>3 DEF Process, JobRecord
    <3>5. QED
      BY <3>1, <3>2, <3>3, <3>4 DEF Placed
  <2>3. QED
    BY <2>1, <2>2
<1>2. UNCHANGED <<row, archive, files, agent>>
  BY DEF StartRestore, StartDelete
<1>4. /\ proc[t] = NoBackup /\ proc'[t] = r
      /\ \A u \in Workers \ {t} : proc'[u] = proc[u]
      /\ proc' \in [Workers -> JobRecord \cup {NoBackup}]
      /\ \A u \in Workers : proc'[u] # NoBackup => Placed(proc'[u], row)
      /\ used' \in Used /\ (Calm' => Calm)
  BY <1>1, BeginCounts DEF BackupsInv
<1>5. WorkTyped'
  BY <1>2, <1>4 DEF BackupsInv, WorkTyped, Placed
<1>6. Works(t)' /\ ~Making(proc'[t])
  BY <1>1, <1>2, <1>4 DEF Works, Removes, Makes, Making
<1>7. QED
  BY <1>2, <1>4, <1>5, <1>6, Onward DEF OthersStay

LEMMA CallKeeps ==
  ASSUME BackupsInv, NEW t \in Workers, Call(t)
  PROVE  BackupsInv'
<1>1. PICK r \in JobRecord : /\ r = proc[t] /\ r # NoBackup /\ r.pc = "lease"
                             /\ r.b \in Backups /\ row[r.b] # NoBackup
  BY DEF Call, BackupsInv, WorkTyped, Placed
<1>2. UNCHANGED <<row, archive, files, used>> /\ Goto(t, "call", FALSE)
  BY DEF Call
<1>3. PICK a : a = [pc |-> IF r.op = "restore" THEN "lock" ELSE "read", b |-> r.b,
        todo |-> PartsOf(r.type), got |-> Nothing, scope |-> r.scope,
        created |-> {}, before |-> Nothing, left |-> FALSE, ans |-> "none"]
  OBVIOUS
<1>4. agent' = [agent EXCEPT ![t] = a]
  BY <1>1, <1>3 DEF Call
<1>5. PartsOf(r.type) \in SUBSET Parts /\ Nothing \in ArchiveContent
  BY <1>1 DEF PartsOf, Parts, Nothing, ArchiveContent, JobRecord
<1>6. a \in AgentRecord /\ a.b = r.b /\ ~a.left /\ a.ans = "none" /\ (r.op # "restore" => a.pc = "read")
  BY <1>1, <1>3, <1>5 DEF AgentRecord, JobRecord
<1>7. /\ agent' \in [Workers -> AgentRecord \cup {NoBackup}] /\ agent'[t] = a
      /\ \A u \in Workers \ {t} : agent'[u] = agent[u]
  BY <1>4, <1>6 DEF BackupsInv, WorkTyped
<1>8. /\ proc'[t] \in JobRecord /\ proc'[t] # NoBackup
      /\ proc'[t].op = r.op /\ proc'[t].b = r.b /\ proc'[t].list = r.list
      /\ proc'[t].pc = "call"
      /\ \A u \in Workers \ {t} : proc'[u] = proc[u]
      /\ proc' \in [Workers -> JobRecord \cup {NoBackup}]
      /\ \A u \in Workers : proc'[u] # NoBackup => Placed(proc'[u], row)
  BY <1>1, <1>2, GotoMoves DEF BackupsInv, Pcs
<1>9. WorkTyped'
  BY <1>2, <1>7, <1>8 DEF BackupsInv, WorkTyped, Placed
<1>10. Calm' => Works(t)'
  BY <1>1, <1>2, <1>6, <1>7, <1>8 DEF BackupsInv, Works, Calm, Removes, Makes, Making
<1>11. QED
  BY <1>1, <1>2, <1>7, <1>8, <1>9, <1>10, Onward DEF OthersStay, Making, Calm

LEMMA LastIsNatural ==
  ASSUME WorkTyped
  PROVE  LastSecond \in Nat
<1> DEFINE B == {b \in Backups : row[b] # NoBackup}
<1>1. CASE \A b \in Backups : row[b] = NoBackup
  BY <1>1 DEF LastSecond
<1>2. CASE ~(\A b \in Backups : row[b] = NoBackup)
  <2>1. \A b \in B : row[b].at \in Nat
    BY DEF WorkTyped, BackupRow
  <2>2. IsFiniteSet(B) /\ B # {}
    <3>1. IsFiniteSet(Backups)
      BY JobsAssumption, FS_Interval DEF Backups
    <3>2. B \in SUBSET Backups
      OBVIOUS
    <3>3. QED
      BY <1>2, <3>1, <3>2, FS_Subset
  <2>3. PICK f \in [B -> Int] : \A b \in B : f[b] = 0 - row[b].at
    <3>1. [b \in B |-> 0 - row[b].at] \in [B -> Int]
      BY <2>1
    <3>2. QED
      BY <3>1
  <2>4. PICK b \in B : \A c \in B : f[b] <= f[c]
    <3> HIDE DEF B
    <3>1. QED
      BY <2>2, Least
  <2>5. row[b].at \in {row[c].at : c \in B} /\ \A c \in B : row[c].at <= row[b].at
    BY <2>1, <2>3, <2>4
  <2>6. \E n \in {row[c].at : c \in {d \in Backups : row[d] # NoBackup}} :
          \A c \in Backups : row[c] # NoBackup => row[c].at <= n
    BY <2>5
  <2>7. {row[c].at : c \in {d \in Backups : row[d] # NoBackup}} \subseteq Nat
    BY <2>1
  <2>8. QED
    BY <1>2, <2>6, <2>7 DEF LastSecond
<1>3. QED
  BY <1>1, <1>2

LEMMA InsertRowKeeps ==
  ASSUME BackupsInv, NEW t \in Workers, InsertRow(t)
  PROVE  BackupsInv'
<1>1. PICK r \in JobRecord : /\ r = proc[t] /\ r # NoBackup /\ r.pc = "row"
                             /\ r.op \in {"create", "scheduled"}
  BY DEF InsertRow, Creating, At, BackupsInv, WorkTyped
<1>2. PICK b \in Backups, tick \in {0, 1} :
       /\ row[b] = NoBackup
       /\ row' = [row EXCEPT ![b] = [status |-> "pending", type |-> proc[t].type, at |-> LastSecond + tick]]
       /\ proc' = [proc EXCEPT ![t].b = b, ![t].pc = "lease"]
  BY DEF InsertRow
<1>3. UNCHANGED <<archive, files, agent, used>>
  BY DEF InsertRow
<1>4. PICK q : q = [status |-> "pending", type |-> proc[t].type, at |-> LastSecond + tick]
  OBVIOUS
<1>5. q \in BackupRow /\ q.status = "pending"
  BY LastIsNatural, <1>1, <1>4 DEF BackupsInv, BackupRow, JobRecord
<1>6. /\ row' \in [Backups -> BackupRow \cup {NoBackup}] /\ row'[b] = q
      /\ \A c \in Backups \ {b} : row'[c] = row[c]
  BY <1>2, <1>4, <1>5 DEF BackupsInv, WorkTyped
<1>7. PICK n : n = [r EXCEPT !.b = b, !.pc = "lease"]
  OBVIOUS
<1>8. n \in JobRecord /\ n.op = r.op /\ n.b = b /\ n.pc = "lease" /\ n.list = r.list
  BY <1>7 DEF JobRecord
<1>9. /\ proc' \in [Workers -> JobRecord \cup {NoBackup}] /\ proc'[t] = n
      /\ \A u \in Workers \ {t} : proc'[u] = proc[u]
  BY <1>1, <1>2, <1>7, <1>8 DEF BackupsInv, WorkTyped
<1>10. q # NoBackup
  BY <1>5, RecordAssumption
<1>11. WorkTyped'
  BY <1>6, <1>10, <1>1, <1>8, <1>3, <1>9 DEF BackupsInv, WorkTyped, Placed, JobRecord
<1>12. ASSUME Calm' PROVE /\ Calm /\ RowsGoOn(t) /\ ArchivesGoOn
                          /\ Works(t)'
                          /\ \A u \in Workers \ {t} : Making(proc'[t]) /\ Making(proc[u]) => proc'[t].b # proc[u].b
                          /\ SuccessHasArchive'
  <2>1. Calm /\ (\A u \in Workers : Works(u)) /\ SuccessHasArchive
    BY <1>3, <1>12 DEF Calm, BackupsInv
  <2>2. RowsGoOn(t) /\ ArchivesGoOn
    BY <1>2, <1>3, <1>6 DEF RowsGoOn, ArchivesGoOn
  <2>3. Removes(r, row)
    BY <1>1, <2>1 DEF Works
  <2>4. \A c \in Backups : Settled(row, c) => Settled(row', c)
    BY <2>2 DEF RowsGoOn, Settled
  <2>5. Works(t)'
    BY <1>1, <1>5, <1>6, <1>8, <1>9, <1>10, <2>3, <2>4 DEF Works, Removes, Makes, JobRecord
  <2>6. \A u \in Workers \ {t} : Making(proc'[t]) /\ Making(proc[u]) => proc'[t].b # proc[u].b
    BY <1>2, <1>8, <1>9, <2>1 DEF Works, Makes
  <2>7. SuccessHasArchive'
    BY <1>3, <1>5, <1>6, <2>1, <1>1, <1>9 DEF SuccessHasArchive, WithStatus, Running, Calm
  <2>8. QED
    BY <2>1, <2>2, <2>5, <2>6, <2>7
<1>13. OthersStay(t)
  BY <1>3, <1>9 DEF OthersStay
<1>14. QED
  BY <1>11, <1>12, <1>13, WorkerSteps

LEMMA GotoFails ==
  ASSUME BackupsInv, NEW t \in Workers, proc[t] # NoBackup, NEW pc \in {"finish", "end"}, Goto(t, pc, FALSE),
         UNCHANGED <<row, archive, files, agent>>, Fault
  PROVE  BackupsInv'
BY FaultCounts, GotoMoves DEF BackupsInv, Pcs, WorkTyped, Placed

LEMMA InsertFailsKeeps ==
  ASSUME BackupsInv, NEW t \in Workers, InsertFails(t)
  PROVE  BackupsInv'
BY GotoFails DEF InsertFails, Creating, At, AfterCreate

LEMMA PanicKeeps ==
  ASSUME BackupsInv, NEW t \in Workers, Panic(t)
  PROVE  BackupsInv'
BY GotoFails DEF Panic

(* A step of the agent that is part of the making of a backup.               *)
LEMMA AgentMakes ==
  ASSUME BackupsInv, UNCHANGED <<row, files, proc>>, NEW t \in Workers,
         used' \in Used, Calm' => Calm,
         archive' \in [Backups -> ArchiveContent \cup {NoBackup}],
         \A b \in Backups : archive[b] # NoBackup => archive'[b] # NoBackup,
         agent' \in [Workers -> AgentRecord \cup {NoBackup}],
         \A u \in Workers \ {t} : agent'[u] = agent[u],
         Calm' /\ ~agent[t].left =>
            /\ agent'[t] \in AgentRecord /\ ~agent'[t].left /\ agent'[t].b = agent[t].b
            /\ agent'[t].pc \in {"read", "rename"}
            /\ agent'[t].ans = "ok" => archive'[agent[t].b] # NoBackup
  PROVE  BackupsInv'
<1>1. WorkTyped'
  BY DEF BackupsInv, WorkTyped
<1>2. ASSUME Calm' PROVE /\ Calm /\ RowsGoOn(t) /\ ArchivesGoOn
                         /\ Works(t)'
                         /\ \A u \in Workers \ {t} : Making(proc'[t]) /\ Making(proc[u]) => proc'[t].b # proc[u].b
                         /\ SuccessHasArchive'
  <2>1. Calm /\ Works(t) /\ Apart /\ SuccessHasArchive
    BY <1>2 DEF BackupsInv
  <2>2. RowsGoOn(t) /\ ArchivesGoOn
    BY DEF RowsGoOn, ArchivesGoOn
  <2>3. Making(proc[t]) => proc[t].b \in Backups
    BY DEF Making, BackupsInv, WorkTyped, Placed
  <2>4. Works(t)'
    BY <1>2, <2>1, <2>3 DEF Works, Removes, Makes
  <2>5. \A u \in Workers \ {t} : Making(proc'[t]) /\ Making(proc[u]) => proc'[t].b # proc[u].b
    BY <2>1 DEF Apart
  <2>6. SuccessHasArchive'
    BY <2>1 DEF SuccessHasArchive, WithStatus, Running, Calm
  <2>7. QED
    BY <2>1, <2>2, <2>4, <2>5, <2>6
<1>3. QED
  BY <1>1, <1>2, WorkerSteps DEF OthersStay

LEMMA ReadPartKeeps ==
  ASSUME BackupsInv, NEW t \in Workers, ReadPart(t)
  PROVE  BackupsInv'
<1>1. PICK a \in AgentRecord : a = agent[t] /\ a # NoBackup /\ a.ans = "none" /\ a.pc = "read"
  BY DEF ReadPart, AgentAt, BackupsInv, WorkTyped
<1>2. PICK p \in Parts : p = NextPart(a.todo)
  BY DEF NextPart, Parts
<1>3. PICK g \in ArchiveContent : g = [a.got EXCEPT ![p] = files[p]]
  BY <1>2 DEF ArchiveContent, AgentRecord, BackupsInv, WorkTyped
<1>4. PICK q : q = [a EXCEPT !.got = g, !.todo = @ \ {p}, !.pc = IF a.todo = {p} THEN "rename" ELSE "read"]
  OBVIOUS
<1>5. q \in AgentRecord /\ q.left = a.left /\ q.b = a.b /\ q.pc \in {"read", "rename"} /\ q.ans = "none"
  BY <1>1, <1>4 DEF AgentRecord
<1>6. agent' = [agent EXCEPT ![t] = q]
  BY <1>1, <1>2, <1>3, <1>4 DEF ReadPart, BackupsInv, WorkTyped
<1>7. /\ agent' \in [Workers -> AgentRecord \cup {NoBackup}] /\ agent'[t] = q
      /\ \A u \in Workers \ {t} : agent'[u] = agent[u]
  BY <1>5, <1>6 DEF BackupsInv, WorkTyped
<1>8. UNCHANGED <<row, archive, files, proc, used>>
  BY DEF ReadPart
<1>9. QED
  BY <1>1, <1>5, <1>7, <1>8, AgentMakes DEF BackupsInv, WorkTyped, Calm

LEMMA StoreKeeps ==
  ASSUME BackupsInv, NEW t \in Workers, Store(t)
  PROVE  BackupsInv'
BY RecordAssumption, ReplyMoves, AgentMakes DEF Store, AgentAt, BackupsInv, WorkTyped, AgentRecord,
   Calm

LEMMA CreateFailsKeeps ==
  ASSUME BackupsInv, NEW t \in Workers, CreateFails(t)
  PROVE  BackupsInv'
BY FaultCounts, ReplyMoves, AgentMakes DEF CreateFails, AgentAt, BackupsInv, WorkTyped, Calm

(* The call returns, or the goroutine gives it up.                           *)
LEMMA CallEnds ==
  ASSUME BackupsInv, NEW t \in Workers, proc[t] # NoBackup, proc[t].pc = "call", NEW next \in {"mark", "finish"},
         next = "mark" => Making(proc[t]), next = "finish" => proc[t].op = "restore",
         (Answered(t, next) /\ used' = used) \/ GiveUp(t, next),
         UNCHANGED <<row, archive, files>>
  PROVE  BackupsInv'
<1>1. PICK a \in AgentRecord : a = agent[t] /\ a # NoBackup
  BY DEF Answered, GiveUp, BackupsInv, WorkTyped
<1>2. used' \in Used /\ (Calm' => Calm)
  BY FaultCounts DEF BackupsInv, WorkTyped, Calm, Fault, GiveUp
<1>3. /\ agent' \in [Workers -> AgentRecord \cup {NoBackup}]
      /\ \A u \in Workers \ {t} : agent'[u] = agent[u]
  <2>1. CASE agent' = [agent EXCEPT ![t] = NoBackup]
    BY <2>1 DEF BackupsInv, WorkTyped
  <2>2. CASE agent' = [agent EXCEPT ![t].left = TRUE]
    BY <1>1, <2>2 DEF AgentRecord, BackupsInv, WorkTyped
  <2>3. QED
    BY <2>1, <2>2 DEF Answered, GiveUp
<1>4. PICK ok \in BOOLEAN : Goto(t, next, ok) /\ (ok => a.ans = "ok")
  BY <1>1 DEF Answered, GiveUp
<1>5. proc[t].b \in Backups /\ row[proc[t].b] # NoBackup
  BY DEF BackupsInv, WorkTyped, Placed
<1>6. /\ proc'[t] \in JobRecord /\ proc'[t] # NoBackup
      /\ proc'[t].op = proc[t].op /\ proc'[t].b = proc[t].b /\ proc'[t].list = proc[t].list
      /\ proc'[t].pc = next /\ proc'[t].ok = ok
      /\ \A u \in Workers \ {t} : proc'[u] = proc[u]
      /\ proc' \in [Workers -> JobRecord \cup {NoBackup}]
      /\ \A u \in Workers : proc'[u] # NoBackup => Placed(proc'[u], row)
  BY <1>4, <1>5, GotoMoves DEF Pcs, BackupsInv
<1>7. WorkTyped'
  BY <1>2, <1>3, <1>6 DEF BackupsInv, WorkTyped
<1>8. ASSUME Calm' PROVE /\ Calm
                         /\ proc[t] # NoBackup => proc[t].pc \notin {"mark", "swept"}
                         /\ Works(t)'
                         /\ Making(proc'[t]) => Making(proc[t]) /\ proc'[t].b = proc[t].b
  BY <1>2, <1>8, <1>6, <1>1, <1>4 DEF BackupsInv, Making, Works, Removes, Makes
<1>9. OthersStay(t)
  BY <1>3, <1>6 DEF OthersStay
<1>10. QED
  BY <1>7, <1>8, <1>9, Onward

LEMMA CallReturnsKeeps ==
  ASSUME BackupsInv, NEW t \in Workers, CreateReturns(t) \/ RestoreReturns(t)
  PROVE  BackupsInv'
<1>1. CASE CreateReturns(t)
  BY <1>1, CallEnds DEF CreateReturns, Creating, At, Making
<1>2. CASE RestoreReturns(t)
  BY <1>2, CallEnds DEF RestoreReturns, At
<1>3. QED
  BY <1>1, <1>2

(* A row gets another status.                                                *)
LEMMA StatusMoves ==
  ASSUME WorkTyped, NEW b \in Backups, row[b] # NoBackup, NEW st \in {"success", "failed", "deleted"},
         row' = [row EXCEPT ![b].status = st]
  PROVE  /\ row' \in [Backups -> BackupRow \cup {NoBackup}]
         /\ row'[b] # NoBackup /\ row'[b].status = st
         /\ \A c \in Backups \ {b} : row'[c] = row[c]
         /\ \A r \in JobRecord : Placed(r, row) => Placed(r, row')
BY RecordAssumption DEF WorkTyped, BackupRow, Placed, JobRecord

LEMMA MarkFinishedKeeps ==
  ASSUME BackupsInv, NEW t \in Workers, MarkFinished(t)
  PROVE  BackupsInv'
<1>1. PICK r \in JobRecord : /\ r = proc[t] /\ r # NoBackup /\ r.pc = "mark" /\ Making(r)
                             /\ r.op \in {"create", "scheduled"} /\ r.b \in Backups /\ row[r.b] # NoBackup
  BY DEF MarkFinished, Creating, At, BackupsInv, WorkTyped, Placed, Making
<1>2. PICK pc \in {"finish", "list", "end"} : Goto(t, pc, r.ok)
  BY <1>1 DEF MarkFinished, AfterCreate
<1>3. r.ok \in BOOLEAN /\ pc \in Pcs
  BY <1>1 DEF JobRecord, Pcs
<1>4. /\ proc'[t] \in JobRecord /\ proc'[t] # NoBackup
      /\ proc'[t].op = r.op /\ proc'[t].b = r.b /\ proc'[t].list = r.list
      /\ proc'[t].pc = pc
      /\ \A u \in Workers \ {t} : proc'[u] = proc[u]
      /\ proc' \in [Workers -> JobRecord \cup {NoBackup}]
      /\ \A u \in Workers : proc'[u] # NoBackup => Placed(proc'[u], row)
  BY <1>1, <1>2, <1>3, GotoMoves DEF BackupsInv
<1>5. UNCHANGED <<archive, files, agent>>
  BY DEF MarkFinished
<1>6. CASE Fault /\ row' = row
  BY <1>6, FaultCounts, <1>4, <1>5 DEF BackupsInv, WorkTyped
<1>7. CASE /\ row' = [row EXCEPT ![proc[t].b].status = IF proc[t].ok THEN "success" ELSE "failed"]
           /\ used' = used
  <2>1. PICK st \in {"success", "failed"} : st = IF r.ok THEN "success" ELSE "failed"
    OBVIOUS
  <2>2. row' = [row EXCEPT ![r.b].status = st]
    BY <1>1, <1>7, <2>1
  <2>3. /\ row' \in [Backups -> BackupRow \cup {NoBackup}]
        /\ row'[r.b] # NoBackup /\ row'[r.b].status = st
        /\ \A c \in Backups \ {r.b} : row'[c] = row[c]
        /\ \A q \in JobRecord : Placed(q, row) => Placed(q, row')
    BY <1>1, <2>2, StatusMoves DEF BackupsInv
  <2>4. WorkTyped'
    BY <1>4, <1>5, <1>7, <2>3 DEF BackupsInv, WorkTyped
  <2>5. ASSUME Calm' PROVE /\ Calm /\ RowsGoOn(t) /\ ArchivesGoOn
                           /\ Works(t)'
                           /\ \A u \in Workers \ {t} : Making(proc'[t]) /\ Making(proc[u]) => proc'[t].b # proc[u].b
                           /\ SuccessHasArchive'
    <3>1. Calm /\ Works(t) /\ SuccessHasArchive
      BY <1>7, <2>5 DEF Calm, BackupsInv
    <3>2. RowsGoOn(t) /\ ArchivesGoOn
      BY <1>1, <1>5, <2>3 DEF RowsGoOn, ArchivesGoOn
    <3>3. ~Making(proc'[t])
      BY <1>4 DEF Making
    <3>4. \A c \in Backups : Settled(row, c) => Settled(row', c)
      BY <3>2 DEF RowsGoOn, Settled
    <3>5. Works(t)'
      BY <1>1, <1>4, <3>1, <3>3, <3>4 DEF Works, Removes, Makes, JobRecord
    <3>6. SuccessHasArchive'
      BY <1>5, <1>1, <2>1, <2>3, <3>1, <1>4 DEF SuccessHasArchive, WithStatus, Running, Works,
         Makes, Calm
    <3>7. QED
      BY <3>1, <3>2, <3>3, <3>5, <3>6
  <2>6. QED
    BY <1>4, <1>5, <2>4, <2>5, WorkerSteps DEF OthersStay
<1>8. QED
  BY <1>6, <1>7 DEF MarkFinished

LEMMA ListKeeps ==
  ASSUME BackupsInv, NEW t \in Workers, ListSuccessful(t)
  PROVE  BackupsInv'
<1>1. PICK r \in JobRecord : r = proc[t] /\ r # NoBackup /\ r.op = "scheduled" /\ r.pc = "list"
  BY DEF ListSuccessful, At, BackupsInv, WorkTyped
<1>2. PICK list \in SUBSET Listed, pc \in {"end", "sweep"} :
        proc' = [proc EXCEPT ![t].list = list, ![t].pc = pc]
  BY DEF ListSuccessful
<1>3. \A b \in list : b \in Backups /\ row[b] # NoBackup /\ Settled(row, b)
  BY DEF Listed, WithStatus, Settled
<1>4. PICK q : q = [r EXCEPT !.list = list, !.pc = pc]
  OBVIOUS
<1>5. q \in JobRecord /\ q.op = r.op /\ q.list = list /\ q.pc = pc
  BY <1>3, <1>4 DEF JobRecord
<1>6. /\ proc' \in [Workers -> JobRecord \cup {NoBackup}] /\ proc'[t] = q
      /\ \A u \in Workers \ {t} : proc'[u] = proc[u]
  BY <1>1, <1>2, <1>4, <1>5 DEF BackupsInv, WorkTyped
<1>7. UNCHANGED <<row, archive, files, agent, used>>
  BY DEF ListSuccessful
<1>8. Placed(q, row)
  BY <1>3, <1>5 DEF Placed
<1>9. WorkTyped'
  BY <1>6, <1>7, <1>8 DEF BackupsInv, WorkTyped
<1>10. Works(t)' /\ ~Making(proc'[t])
  BY <1>1, <1>3, <1>5, <1>6, <1>7 DEF Works, Removes, Makes, Making
<1>11. QED
  BY <1>1, <1>6, <1>7, <1>9, <1>10, Onward DEF OthersStay, Calm

(* The archive goes before the row is marked.                                *)
LEMMA ArchiveGoes ==
  ASSUME BackupsInv, NEW t \in Workers, NEW b \in Backups, archive' = [archive EXCEPT ![b] = NoBackup],
         UNCHANGED <<row, files, agent>>, used' \in Used, ~Making(proc'[t]),
         proc' \in [Workers -> JobRecord \cup {NoBackup}], proc'[t] # NoBackup, Placed(proc'[t], row),
         \A u \in Workers \ {t} : proc'[u] = proc[u],
         proc[t] # NoBackup, proc[t].pc \notin {"mark", "swept"},
         Calm' => Calm /\ Settled(row, b) /\ Removes(proc'[t], row) /\ proc'[t].b = b /\ proc'[t].pc \in {"mark", "swept"}
  PROVE  BackupsInv'
<1>1. /\ archive' \in [Backups -> ArchiveContent \cup {NoBackup}]
      /\ \A c \in Backups \ {b} : archive'[c] = archive[c]
  BY DEF BackupsInv, WorkTyped
<1>2. WorkTyped'
  BY <1>1 DEF BackupsInv, WorkTyped
<1>3. ASSUME Calm' PROVE /\ Calm /\ RowsGoOn(t) /\ ArchivesGoOn
                         /\ Works(t)'
                         /\ \A u \in Workers \ {t} : Making(proc'[t]) /\ Making(proc[u]) => proc'[t].b # proc[u].b
                         /\ SuccessHasArchive'
  <2>1. Calm /\ SuccessHasArchive
    BY <1>3 DEF BackupsInv
  <2>2. RowsGoOn(t) /\ ArchivesGoOn
    BY <1>1, <1>3 DEF RowsGoOn, ArchivesGoOn
  <2>3. Works(t)'
    BY <1>3 DEF Works, Makes
  <2>4. SuccessHasArchive'
    <3>1. SUFFICES ASSUME NEW c \in Backups, row[c] # NoBackup, row[c].status = "success", archive'[c] = NoBackup
                   PROVE  \E u \in Workers : proc'[u] # NoBackup /\ proc'[u].b = c /\ proc'[u].pc \in {"mark", "swept"}
      BY DEF SuccessHasArchive, WithStatus, Running
    <3>2. CASE c = b
      BY <1>3, <3>2
    <3>3. CASE c # b
      BY <1>1, <2>1, <3>1, <3>3 DEF SuccessHasArchive, WithStatus, Running, Calm
    <3>4. QED
      BY <3>2, <3>3
  <2>5. QED
    BY <2>1, <2>2, <2>3, <2>4
<1>4. QED
  BY <1>2, <1>3, WorkerSteps DEF OthersStay

LEMMA SweepKeeps ==
  ASSUME BackupsInv, NEW t \in Workers, Sweep(t)
  PROVE  BackupsInv'
<1>1. PICK r \in JobRecord : r = proc[t] /\ r # NoBackup /\ r.op = "scheduled" /\ r.pc = "sweep" /\ Placed(r, row)
  BY DEF Sweep, At, BackupsInv, WorkTyped
<1>2. PICK b \in r.list :
       \/ /\ archive' = [archive EXCEPT ![b] = NoBackup] /\ used' = used
          /\ proc' = [proc EXCEPT ![t].b = b, ![t].list = @ \ {b}, ![t].pc = "swept"]
       \/ /\ Fault /\ archive' = archive
          /\ proc' = [proc EXCEPT ![t].list = @ \ {b}]
  BY <1>1 DEF Sweep
<1>3. UNCHANGED <<row, files, agent>>
  BY DEF Sweep
<1>4. b \in Backups /\ row[b] # NoBackup
  BY <1>1 DEF JobRecord, Placed
<1>5. CASE /\ archive' = [archive EXCEPT ![b] = NoBackup] /\ used' = used
           /\ proc' = [proc EXCEPT ![t].b = b, ![t].list = @ \ {b}, ![t].pc = "swept"]
  <2>1. PICK q : q = [r EXCEPT !.b = b, !.list = @ \ {b}, !.pc = "swept"]
    OBVIOUS
  <2>2. q \in JobRecord /\ q.op = r.op /\ q.b = b /\ q.list = r.list \ {b} /\ q.pc = "swept"
    BY <1>4, <2>1 DEF JobRecord
  <2>3. /\ proc' \in [Workers -> JobRecord \cup {NoBackup}] /\ proc'[t] = q
        /\ \A u \in Workers \ {t} : proc'[u] = proc[u]
    BY <1>1, <1>5, <2>1, <2>2 DEF BackupsInv, WorkTyped
  <2>4. Placed(q, row) /\ q # NoBackup /\ ~Making(q)
    BY <1>1, <1>4, <2>2, RecordAssumption DEF Placed, Making
  <2>5. Calm' => Calm /\ Settled(row, b) /\ Removes(q, row)
    BY <1>1, <1>5, <2>2 DEF BackupsInv, Works, Calm, Removes
  <2>6. /\ proc'[t] # NoBackup /\ Placed(proc'[t], row) /\ ~Making(proc'[t]) /\ used' \in Used
        /\ Calm' => Calm /\ Settled(row, b) /\ Removes(proc'[t], row) /\ proc'[t].b = b
                    /\ proc'[t].pc \in {"mark", "swept"}
    BY <1>5, <2>2, <2>3, <2>4, <2>5 DEF BackupsInv, WorkTyped
  <2>7. QED
    BY <1>1, <1>3, <1>4, <1>5, <2>3, <2>6, ArchiveGoes
<1>6. CASE /\ Fault /\ archive' = archive
           /\ proc' = [proc EXCEPT ![t].list = @ \ {b}]
  BY <1>1, <1>6, FaultCounts, <1>3 DEF JobRecord, BackupsInv, WorkTyped, Placed
<1>7. QED
  BY <1>2, <1>5, <1>6

LEMMA RemoveKeeps ==
  ASSUME BackupsInv, NEW t \in Workers, RemoveArchive(t)
  PROVE  BackupsInv'
<1>1. PICK r \in JobRecord : /\ r = proc[t] /\ r # NoBackup /\ r.op = "delete" /\ r.pc = "remove"
                             /\ r.b \in Backups /\ row[r.b] # NoBackup
  BY DEF RemoveArchive, At, BackupsInv, WorkTyped, Placed
<1>2. UNCHANGED <<row, files, agent>>
  BY DEF RemoveArchive
<1>3. CASE Fault /\ Goto(t, "end", FALSE) /\ archive' = archive
  BY <1>1, <1>2, <1>3, GotoFails
<1>4. CASE /\ archive' = [archive EXCEPT ![proc[t].b] = NoBackup] /\ Goto(t, "mark", TRUE)
           /\ used' = [used EXCEPT !.raced = @ \/ row[proc[t].b].status = "pending"]
  <2>1. PICK raced \in BOOLEAN : raced = (used.raced \/ row[r.b].status = "pending")
    OBVIOUS
  <2>2. used \in Used /\ used' = [used EXCEPT !.raced = raced]
    BY <1>1, <1>4, <2>1 DEF BackupsInv, WorkTyped
  <2>3. used' \in Used /\ used'.raced = raced /\ used'.faults = used.faults
    BY <2>2 DEF Used
  <2>4. /\ proc'[t] \in JobRecord /\ proc'[t] # NoBackup
        /\ proc'[t].op = r.op /\ proc'[t].b = r.b /\ proc'[t].list = r.list
        /\ proc'[t].pc = "mark"
        /\ \A u \in Workers \ {t} : proc'[u] = proc[u]
        /\ proc' \in [Workers -> JobRecord \cup {NoBackup}]
        /\ \A u \in Workers : proc'[u] # NoBackup => Placed(proc'[u], row)
    BY <1>1, <1>4, GotoMoves DEF BackupsInv, Pcs
  <2>5. ASSUME Calm' PROVE Calm /\ Settled(row, r.b) /\ Removes(proc'[t], row)
    BY <2>1, <2>3, <2>5, <1>1, <2>4 DEF Calm, BackupsInv, WorkTyped, Used, Works, Removes, Settled
  <2>6. ~Making(proc'[t])
    BY <1>1, <2>4 DEF Making
  <2>7. QED
    BY <1>1, <1>2, <1>4, <2>3, <2>4, <2>5, <2>6, ArchiveGoes
<1>5. QED
  BY <1>3, <1>4 DEF RemoveArchive

(* MarkDeleted of a request, and of a cleanup.                               *)
LEMMA DeletedKeeps ==
  ASSUME BackupsInv, NEW t \in Workers, MarkDeleted(t) \/ Swept(t)
  PROVE  BackupsInv'
<1>1. PICK r \in JobRecord, pc \in {"end", "sweep"} :
        /\ r = proc[t] /\ r # NoBackup /\ ~Making(r) /\ Goto(t, pc, TRUE)
        /\ (r.op = "delete" /\ r.pc = "mark" /\ pc = "end") \/ (r.op = "scheduled" /\ r.pc = "swept")
  <2>1. PICK r \in JobRecord : r = proc[t] /\ r # NoBackup
    BY DEF MarkDeleted, Swept, At, BackupsInv, WorkTyped
  <2>2. CASE MarkDeleted(t)
    BY <2>1, <2>2 DEF MarkDeleted, At, Making
  <2>3. CASE Swept(t)
    BY <2>1, <2>3 DEF Swept, At, Making
  <2>4. QED
    BY <2>2, <2>3
<1>2. r.b \in Backups /\ row[r.b] # NoBackup
  BY <1>1 DEF BackupsInv, WorkTyped, Placed
<1>3. UNCHANGED <<archive, files, agent>>
  BY DEF MarkDeleted, Swept
<1>4. /\ proc'[t] \in JobRecord /\ proc'[t] # NoBackup
      /\ proc'[t].op = r.op /\ proc'[t].b = r.b /\ proc'[t].list = r.list
      /\ proc'[t].pc = pc
      /\ \A u \in Workers \ {t} : proc'[u] = proc[u]
      /\ proc' \in [Workers -> JobRecord \cup {NoBackup}]
      /\ \A u \in Workers : proc'[u] # NoBackup => Placed(proc'[u], row)
  BY <1>1, GotoMoves DEF BackupsInv, Pcs
<1>5. CASE Fault /\ row' = row
  BY <1>5, FaultCounts, <1>3, <1>4 DEF BackupsInv, WorkTyped
<1>6. CASE row' = [row EXCEPT ![r.b].status = "deleted"] /\ used' = used
  <2>1. /\ row' \in [Backups -> BackupRow \cup {NoBackup}]
        /\ row'[r.b] # NoBackup /\ row'[r.b].status = "deleted"
        /\ \A c \in Backups \ {r.b} : row'[c] = row[c]
        /\ \A q \in JobRecord : Placed(q, row) => Placed(q, row')
    BY <1>2, <1>6, StatusMoves DEF BackupsInv
  <2>2. WorkTyped'
    BY <1>3, <1>4, <1>6, <2>1 DEF BackupsInv, WorkTyped
  <2>3. ASSUME Calm' PROVE /\ Calm /\ RowsGoOn(t) /\ ArchivesGoOn
                           /\ Works(t)'
                           /\ \A u \in Workers \ {t} : Making(proc'[t]) /\ Making(proc[u]) => proc'[t].b # proc[u].b
                           /\ SuccessHasArchive'
    <3>1. Calm /\ Works(t) /\ SuccessHasArchive
      BY <1>6, <2>3 DEF Calm, BackupsInv
    <3>2. Settled(row, r.b)
      BY <1>1, <3>1 DEF Works, Removes
    <3>3. RowsGoOn(t) /\ ArchivesGoOn
      BY <1>3, <2>1, <3>2 DEF RowsGoOn, ArchivesGoOn, Settled
    <3>4. ~Making(proc'[t])
      BY <1>4 DEF Making
    <3>5. \A c \in Backups : Settled(row, c) => Settled(row', c)
      BY <3>3 DEF RowsGoOn, Settled
    <3>6. Works(t)'
      BY <1>1, <1>2, <1>4, <2>1, <3>1, <3>4, <3>5 DEF Works, Removes, Makes, JobRecord
    <3>7. SuccessHasArchive'
      BY <1>3, <2>1, <3>1, <1>1, <1>4 DEF SuccessHasArchive, WithStatus, Running, Calm
    <3>8. QED
      BY <3>1, <3>3, <3>4, <3>6, <3>7
  <2>4. QED
    BY <1>3, <1>4, <2>2, <2>3, WorkerSteps DEF OthersStay
<1>7. QED
  BY <1>1, <1>5, <1>6 DEF MarkDeleted, Swept

LEMMA FetchKeeps ==
  ASSUME BackupsInv, NEW t \in Workers, Fetch(t)
  PROVE  BackupsInv'
<1>1. PICK r \in JobRecord : /\ r = proc[t] /\ r # NoBackup /\ r.op = "restore" /\ r.pc = "fetch"
                             /\ r.b \in Backups /\ row[r.b] # NoBackup
  BY DEF Fetch, At, BackupsInv, WorkTyped, Placed
<1>2. PICK pc \in {"finish", "lease"} : Goto(t, pc, FALSE)
  BY DEF Fetch
<1>3. UNCHANGED <<row, archive, files, agent, used>>
  BY DEF Fetch
<1>4. /\ proc'[t] \in JobRecord /\ proc'[t] # NoBackup
      /\ proc'[t].op = r.op /\ proc'[t].b = r.b /\ proc'[t].list = r.list
      /\ proc'[t].pc = pc
      /\ \A u \in Workers \ {t} : proc'[u] = proc[u]
      /\ proc' \in [Workers -> JobRecord \cup {NoBackup}]
      /\ \A u \in Workers : proc'[u] # NoBackup => Placed(proc'[u], row)
  BY <1>1, <1>2, GotoMoves DEF BackupsInv, Pcs
<1>5. WorkTyped'
  BY <1>3, <1>4 DEF BackupsInv, WorkTyped
<1>6. ~Making(proc'[t])
  BY <1>1, <1>4 DEF Making
<1>7. Calm' => Calm /\ Works(t)'
  BY <1>3, <1>1, <1>4, <1>6 DEF BackupsInv, Calm, Works, Removes, Makes
<1>8. QED
  BY <1>1, <1>3, <1>4, <1>5, <1>6, <1>7, Onward DEF OthersStay

(* A goroutine ends.                                                         *)
LEMMA EndKeeps ==
  ASSUME BackupsInv, NEW t \in Workers, FinishTask(t) \/ Return(t)
  PROVE  BackupsInv'
<1>1. /\ proc' = [proc EXCEPT ![t] = NoBackup] /\ proc[t].pc \in {"finish", "end", "sweep"}
      /\ UNCHANGED <<row, archive, files, agent, used>>
  BY DEF FinishTask, Return
<1>2. /\ proc' \in [Workers -> JobRecord \cup {NoBackup}] /\ proc'[t] = NoBackup
      /\ \A u \in Workers \ {t} : proc'[u] = proc[u]
  BY <1>1 DEF BackupsInv, WorkTyped
<1>3. WorkTyped'
  BY <1>1, <1>2 DEF BackupsInv, WorkTyped
<1>4. Works(t)' /\ ~Making(proc'[t])
  BY <1>2 DEF Works, Removes, Makes, Making
<1>5. QED
  BY <1>1, <1>2, <1>3, <1>4, Onward DEF OthersStay, Calm

(* A step of the agent that is part of a restore.                            *)
LEMMA AgentRestores ==
  ASSUME BackupsInv, UNCHANGED <<row, archive, proc>>, NEW t \in Workers,
         agent[t].pc \in {"lock", "extract", "back"},
         files' \in ArchiveContent, used' \in Used, Calm' => Calm,
         agent' \in [Workers -> AgentRecord \cup {NoBackup}],
         \A u \in Workers \ {t} : agent'[u] = agent[u]
  PROVE  BackupsInv'
<1>1. WorkTyped'
  BY DEF BackupsInv, WorkTyped
<1>2. ASSUME Calm' PROVE /\ Calm /\ RowsGoOn(t) /\ ArchivesGoOn
                         /\ Works(t)'
                         /\ \A u \in Workers \ {t} : Making(proc'[t]) /\ Making(proc[u]) => proc'[t].b # proc[u].b
                         /\ SuccessHasArchive'
  <2>1. Calm /\ Works(t) /\ Apart /\ SuccessHasArchive
    BY <1>2 DEF BackupsInv
  <2>2. RowsGoOn(t) /\ ArchivesGoOn
    BY DEF RowsGoOn, ArchivesGoOn
  <2>3. Works(t)'
    BY <2>1 DEF Works, Removes, Makes
  <2>4. \A u \in Workers \ {t} : Making(proc'[t]) /\ Making(proc[u]) => proc'[t].b # proc[u].b
    BY <2>1 DEF Apart
  <2>5. SuccessHasArchive'
    BY <2>1 DEF SuccessHasArchive, WithStatus, Running, Calm
  <2>6. QED
    BY <2>1, <2>2, <2>3, <2>4, <2>5
<1>3. QED
  BY <1>1, <1>2, WorkerSteps DEF OthersStay

LEMMA AgentMoves ==
  ASSUME WorkTyped, NEW t \in Workers, NEW q \in AgentRecord, agent' = [agent EXCEPT ![t] = q]
  PROVE  /\ agent' \in [Workers -> AgentRecord \cup {NoBackup}]
         /\ \A u \in Workers \ {t} : agent'[u] = agent[u]
BY DEF WorkTyped

LEMMA SnapshotKeeps ==
  ASSUME BackupsInv, NEW t \in Workers, Snapshot(t) \/ SnapshotFails(t)
  PROVE  BackupsInv'
<1>1. PICK a \in AgentRecord : a = agent[t] /\ a # NoBackup /\ a.pc = "lock"
  BY DEF Snapshot, SnapshotFails, AgentAt, BackupsInv, WorkTyped
<1>2. UNCHANGED <<row, archive, files, proc>>
  BY DEF Snapshot, SnapshotFails
<1>3. used' \in Used /\ (Calm' => Calm)
  BY FaultCounts DEF Snapshot, SnapshotFails, Calm, BackupsInv, WorkTyped
<1>4. /\ agent' \in [Workers -> AgentRecord \cup {NoBackup}]
      /\ \A u \in Workers \ {t} : agent'[u] = agent[u]
  <2>1. CASE Reply(t, "failed")
    BY <1>1, <2>1, ReplyMoves DEF BackupsInv
  <2>2. CASE ~Reply(t, "failed")
    <3>1. PICK g \in ArchiveContent :
            agent' = [agent EXCEPT ![t].pc = "extract", ![t].todo = agent[t].scope, ![t].before = files, ![t].got = g]
      BY <2>2 DEF Snapshot, SnapshotFails, BackupsInv, WorkTyped, ArchiveContent
    <3>2. PICK q : q = [a EXCEPT !.pc = "extract", !.todo = a.scope, !.before = files, !.got = g]
      OBVIOUS
    <3>3. q \in AgentRecord
      BY <3>2 DEF AgentRecord, BackupsInv, WorkTyped
    <3>4. agent' = [agent EXCEPT ![t] = q]
      BY <1>1, <3>1, <3>2 DEF BackupsInv, WorkTyped
    <3>5. QED
      BY <3>3, <3>4, AgentMoves DEF BackupsInv
  <2>3. QED
    BY <2>1, <2>2
<1>5. QED
  BY <1>1, <1>2, <1>3, <1>4, AgentRestores DEF BackupsInv, WorkTyped

LEMMA ExtractedKeeps ==
  ASSUME BackupsInv, NEW t \in Workers, Extract(t) \/ Back(t)
  PROVE  BackupsInv'
<1>1. PICK a \in AgentRecord : a = agent[t] /\ a # NoBackup /\ a.pc \in {"extract", "back"}
  BY DEF Extract, Back, AgentAt, BackupsInv, WorkTyped
<1>2. UNCHANGED <<row, archive, proc, used>>
  BY DEF Extract, Back
<1>3. PICK restored \in ArchiveContent : Extracted(t, restored)
  BY <1>1 DEF Extract, Back, BackupsInv, WorkTyped, AgentRecord
<1>4. PICK p \in Parts : p = NextPart(a.todo)
  BY DEF NextPart, Parts
<1>5. files' \in ArchiveContent
  BY <1>1, <1>3, <1>4 DEF Extracted, ArchiveContent, BackupsInv, WorkTyped
<1>6. PICK made \in SUBSET Parts :
        agent' = [agent EXCEPT ![t].todo = @ \ {p}, ![t].created = made]
  BY <1>1, <1>3, <1>4 DEF Extracted, AgentRecord
<1>7. PICK q : q = [a EXCEPT !.todo = @ \ {p}, !.created = made]
  OBVIOUS
<1>8. q \in AgentRecord
  BY <1>7 DEF AgentRecord
<1>9. agent' = [agent EXCEPT ![t] = q]
  BY <1>1, <1>6, <1>7 DEF BackupsInv, WorkTyped
<1>10. QED
  BY <1>1, <1>2, <1>5, <1>8, <1>9, AgentMoves, AgentRestores DEF BackupsInv, WorkTyped, Calm

LEMMA TurnBackMoves ==
  ASSUME WorkTyped, NEW t \in Workers, agent[t] # NoBackup, NEW removed, TurnBack(t, removed)
  PROVE  /\ files' \in ArchiveContent
         /\ agent' \in [Workers -> AgentRecord \cup {NoBackup}]
         /\ \A u \in Workers \ {t} : agent'[u] = agent[u]
<1>1. PICK a \in AgentRecord : a = agent[t]
  BY DEF WorkTyped
<1>2. files' \in ArchiveContent
  BY DEF TurnBack, ArchiveContent, WorkTyped
<1>3. PICK q : q = [a EXCEPT !.pc = "back", !.todo = a.scope]
  OBVIOUS
<1>4. q \in AgentRecord
  BY <1>3 DEF AgentRecord
<1>5. agent' = [agent EXCEPT ![t] = q]
  BY <1>1, <1>3 DEF TurnBack, WorkTyped
<1>6. QED
  BY <1>2, <1>4, <1>5, AgentMoves

LEMMA RestoreGoesOn ==
  ASSUME BackupsInv, NEW t \in Workers, ExtractFails(t) \/ Tested(t) \/ RolledBack(t) \/ BackFails(t)
  PROVE  BackupsInv'
<1>1. agent[t] # NoBackup /\ agent[t].pc \in {"extract", "back"}
  BY DEF ExtractFails, Tested, RolledBack, BackFails, AgentAt
<1>2. UNCHANGED <<row, archive, proc>>
  BY DEF ExtractFails, Tested, RolledBack, BackFails
<1>3. used' \in Used /\ (Calm' => Calm)
  BY FaultCounts DEF ExtractFails, Tested, RolledBack, BackFails, Calm, BackupsInv, WorkTyped
<1>4. \/ \E removed : TurnBack(t, removed)
      \/ files' = files /\ \E ans \in {"ok", "failed", "undone", "stuck"} : Reply(t, ans)
  BY DEF ExtractFails, Tested, RolledBack, BackFails
<1>5. /\ files' \in ArchiveContent
      /\ agent' \in [Workers -> AgentRecord \cup {NoBackup}]
      /\ \A u \in Workers \ {t} : agent'[u] = agent[u]
  BY <1>1, TurnBackMoves, ReplyMoves, <1>4 DEF BackupsInv, WorkTyped
<1>6. QED
  BY <1>1, <1>2, <1>3, <1>5, AgentRestores

(* What has nothing to do with the backups.                                  *)
LEMMA BesideKeeps ==
  ASSUME BackupsInv, UNCHANGED <<row, archive, proc, agent>>, files' \in ArchiveContent, used' \in Used, Calm' => Calm
  PROVE  BackupsInv'
<1>1. WorkTyped'
  BY DEF BackupsInv, WorkTyped
<1>2. ASSUME Calm' PROVE (\A t \in Workers : Works(t)') /\ Apart' /\ SuccessHasArchive'
  <2>1. Calm /\ (\A t \in Workers : Works(t)) /\ Apart /\ SuccessHasArchive
    BY <1>2 DEF BackupsInv
  <2>2. (\A t \in Workers : Works(t)')
    BY <2>1 DEF Works, Removes, Makes
  <2>3. Apart'
    BY <2>1 DEF Apart
  <2>4. SuccessHasArchive'
    BY <2>1 DEF SuccessHasArchive, WithStatus, Running, Calm
  <2>5. QED
    BY <2>2, <2>3, <2>4
<1>3. QED
  BY <1>1, <1>2 DEF BackupsInv

LEMMA EditKeeps ==
  ASSUME BackupsInv, NEW p \in Parts, Edit(p)
  PROVE  BackupsInv'
<1>1. PICK n \in Nat : n = used.edits + 1
  BY DEF BackupsInv, WorkTyped, Used
<1>2. used \in Used /\ used' = [used EXCEPT !.edits = n]
  BY <1>1 DEF Edit, BackupsInv, WorkTyped
<1>3. used' \in Used /\ (Calm' => Calm)
  BY <1>2 DEF Used, Calm
<1>4. PICK v \in Nat : files' = [files EXCEPT ![p] = v]
  <2>1. used.edits + 2 \in Nat
    BY <1>2 DEF Used
  <2>2. QED
    BY <2>1 DEF Edit
<1>5. files' \in ArchiveContent
  BY <1>4 DEF BackupsInv, WorkTyped, ArchiveContent
<1>6. QED
  BY <1>3, <1>5, BesideKeeps DEF Edit

LEMMA ClosedKeeps ==
  ASSUME BackupsInv, Closed
  PROVE  BackupsInv'
<1>1. /\ proc' = [t \in Workers |-> NoBackup]
      /\ agent' = [t \in Workers |-> IF agent[t] = NoBackup THEN NoBackup ELSE [agent[t] EXCEPT !.left = TRUE]]
      /\ UNCHANGED <<row, archive, files>>
  BY DEF Closed
<1>2. PICK raced \in BOOLEAN : raced = (used.raced \/ Running # {})
  OBVIOUS
<1>3. used \in Used /\ used' = [used EXCEPT !.raced = raced]
  BY <1>2 DEF Closed, BackupsInv, WorkTyped
<1>4. used' \in Used /\ used'.raced = raced /\ used'.faults = used.faults
  BY <1>3 DEF Used
<1>5. \A t \in Workers : agent[t] # NoBackup => [agent[t] EXCEPT !.left = TRUE] \in AgentRecord
  BY DEF BackupsInv, WorkTyped, AgentRecord
<1>6. WorkTyped'
  BY <1>1, <1>4, <1>5 DEF BackupsInv, WorkTyped
<1>7. (\A t \in Workers : Works(t)') /\ Apart'
  BY <1>1 DEF Works, Removes, Makes, Making, Apart
<1>8. ASSUME Calm' PROVE SuccessHasArchive'
  BY <1>2, <1>3, <1>4, <1>8, <1>1 DEF Calm, BackupsInv, Used, SuccessHasArchive, WithStatus
<1>9. QED
  BY <1>6, <1>7, <1>8 DEF BackupsInv

LEMMA BackupsStart == BackupsInit => BackupsInv
<1>1. SUFFICES ASSUME BackupsInit PROVE BackupsInv
  OBVIOUS
<1>2. used \in Used /\ [p \in Parts |-> 1] \in ArchiveContent
  BY <1>1 DEF BackupsInit, Used, ArchiveContent
<1>3. WorkTyped
  BY <1>1, <1>2 DEF BackupsInit, WorkTyped
<1>4. (\A t \in Workers : Works(t)) /\ Apart
  BY <1>1 DEF BackupsInit, Works, Removes, Makes, Making, Apart
<1>5. SuccessHasArchive
  BY <1>1 DEF BackupsInit, SuccessHasArchive, WithStatus
<1>6. QED
  BY <1>3, <1>4, <1>5 DEF BackupsInv

LEMMA BackupsSteps ==
  ASSUME BackupsInv, [BackupsNext]_backupVars
  PROVE  BackupsInv'
<1>1. CASE \E t \in Workers : StartCreate(t) \/ RunScheduled(t) \/ StartRestore(t) \/ StartDelete(t)
  BY <1>1, CreateBegins, RestoreBegins
<1>2. ASSUME NEW t \in Workers, Panel(t) PROVE BackupsInv'
  <2>1. CASE InsertRow(t) \/ InsertFails(t) \/ Call(t) \/ CreateReturns(t) \/ MarkFinished(t)
    BY <2>1, InsertRowKeeps, InsertFailsKeeps, CallKeeps, CallReturnsKeeps, MarkFinishedKeeps
  <2>2. CASE ListSuccessful(t) \/ Sweep(t) \/ Swept(t) \/ RemoveArchive(t) \/ MarkDeleted(t)
    BY <2>2, ListKeeps, SweepKeeps, DeletedKeeps, RemoveKeeps
  <2>3. CASE Fetch(t) \/ RestoreReturns(t) \/ FinishTask(t) \/ Return(t)
    BY <2>3, FetchKeeps, CallReturnsKeeps, EndKeeps
  <2>4. QED
    BY <1>2, <2>1, <2>2, <2>3 DEF Panel
<1>3. ASSUME NEW t \in Workers, Agent(t) PROVE BackupsInv'
  <2>1. CASE ReadPart(t) \/ Store(t) \/ CreateFails(t) \/ Snapshot(t) \/ SnapshotFails(t)
    BY <2>1, ReadPartKeeps, StoreKeeps, CreateFailsKeeps, SnapshotKeeps
  <2>2. CASE Extract(t) \/ ExtractFails(t) \/ Tested(t) \/ Back(t) \/ RolledBack(t) \/ BackFails(t)
    BY <2>2, ExtractedKeeps, RestoreGoesOn
  <2>3. QED
    BY <1>3, <2>1, <2>2 DEF Agent
<1>4. CASE \E t \in Workers : Panic(t)
  BY <1>4, PanicKeeps
<1>5. files \in ArchiveContent /\ used \in Used
  BY DEF BackupsInv, WorkTyped
<1>6. CASE (\E k \in Tasks : Follow(k) \/ Prune(k)) \/ Unfollow \/ Close
  BY <1>5, <1>6, BesideKeeps DEF Follow, Prune, Unfollow, Close, Calm
<1>7. CASE \E p \in Parts : Edit(p)
  BY <1>7, EditKeeps
<1>8. CASE Closed
  BY <1>8, ClosedKeeps
<1>9. CASE UNCHANGED backupVars
  BY <1>5, <1>9, BesideKeeps DEF backupVars, Calm
<1>10. QED
  BY <1>1, <1>2, <1>3, <1>4, <1>6, <1>7, <1>8, <1>9 DEF BackupsNext

(* The types of the rows, the archives, the goroutines and their calls; and, *)
(* as long as nothing has failed and no pending backup was removed, what is  *)
(* removed was settled before, and what is made is pending, with its archive *)
(* stored when the agent says so.                                            *)
THEOREM BackupsInvariant == BackupsSpec => []BackupsInv
<1>1. ASSUME BackupsInv, [BackupsNext]_backupVars PROVE BackupsInv'
  BY <1>1, BackupsSteps
<1>2. QED
  BY BackupsStart, <1>1, PTL DEF BackupsSpec

(* A backup shown as successful has its archive: service.go marks it after   *)
(* the agent's answer, and removes the archive before it marks the row.      *)
THEOREM SuccessfulHasArchive == BackupsSpec => []SuccessHasArchive
<1>1. BackupsInv => SuccessHasArchive
  BY DEF BackupsInv, SuccessHasArchive, Calm
<1>2. QED
  BY BackupsInvariant, <1>1, PTL

-----------------------------------------------------------------------------
(* FileManager: what the answers said of a file is so.                       *)

FilesTyped ==
  /\ tree \in [Names -> FileContent] /\ packed \in [Names -> FileContent]
  /\ work \in [Hands -> FileCall \cup {Nobody}]
  /\ told \in [Names -> SUBSET FileContent] /\ unsure \in SUBSET Names
  /\ tried \in [requests : Nat, mishaps : Nat]

(* How the handling of a call comes along.                                   *)
Shape(r) ==
  /\ r.op \in {"write", "upload"} => r.pc = "put" /\ r.all = {r.to}
  /\ r.op = "remove" => r.pc = "each" /\ r.todo \subseteq r.all /\ r.ans # "failed"
  /\ r.op = "move" => r.pc = "rename" /\ r.all = {r.from, r.to}
  /\ r.op = "copy" => /\ r.pc \in {"open", "fill"} /\ \A n \in r.todo : r.aim[n] \in r.all
                      /\ r.pc = "fill" => r.to \in r.all
  /\ r.op = "compress" => r.pc = "each"
  /\ r.op = "extract" =>
       /\ r.pc \in {"preflight", "look", "entry", "clean"}
       /\ r.todo \subseteq r.all /\ r.created \subseteq r.all \ r.todo
       /\ r.pc = "preflight" => r.all = {}
       /\ r.pc = "entry" => r.todo # {}

(* The files that a call may still change.                                   *)
MayChange(r) ==
  CASE r.op = "compress" -> {}
    [] r.op = "extract" -> Names
    [] OTHER -> r.all

(* The targets that a copy has still to fill.                                *)
Pending(r) == {r.aim[n] : n \in r.todo} \cup (IF r.pc = "fill" THEN {r.to} ELSE {})

(* What a copy fills is its target, or, if a call was given up, one of the   *)
(* files of which nothing is said.                                           *)
Holds(r, u) ==
  \/ r.at = r.to
  \/ (r.left \/ r.beside) /\ r.to \in u /\ r.at \in u \cup {Nobody}

First(todo) == CHOOSE n \in todo : \A m \in todo : n <= m

(* What an extraction has made of a file: what was there before is gone, or  *)
(* it is noted for the cleaning.                                             *)
Extracts(r, n, held, said, sure) ==
  /\ n \in r.todo /\ sure => held \in said
  /\ n \in r.todo /\ sure /\ r.pc = "entry" /\ n = First(r.todo) => r.had = (held # 0)
  /\ n \notin r.todo /\ r.pc # "clean" /\ (sure \/ ~r.beside) => held = r.got[n]
  /\ n \notin r.todo /\ sure /\ n \in r.created => 0 \in said /\ held = r.got[n]
  /\ n \notin r.todo /\ sure /\ n \notin r.created =>
       \/ held = r.got[n] /\ (said # {0} \/ n \in r.kept)
       \/ r.pc = "clean" /\ held = 0 /\ 0 \in said

(* What a call that is under way, or has been answered, makes of the file n  *)
(* that it is about.                                                         *)
Leaves(r, n, held, said, sure) ==
  CASE r.op = "compress" -> sure => held \in said
    [] r.op \in {"write", "upload"} ->
         /\ r.ans = "ok" /\ (sure \/ ~r.beside) => held = r.got[n]
         /\ r.ans # "ok" /\ sure => held \in said
    [] r.op = "remove" -> sure => held \in said \cup {0} /\ (n \in r.todo => held \in said)
    [] r.op = "move" ->
         /\ r.ans = "ok" /\ (sure \/ ~r.beside) =>
              held = IF n = r.from /\ r.from # r.to THEN 0 ELSE r.got[n]
         /\ r.ans # "ok" /\ sure => held \in said
    [] r.op = "copy" ->
         /\ r.ans = "ok" /\ (sure \/ ~r.beside) => held = r.got[n]
         /\ r.ans # "ok" /\ sure =>
              held \in IF n \in r.created THEN {Half, r.got[n]} ELSE said \cup {Half}
         /\ r.ans = "none" /\ n \notin Pending(r) /\ (sure \/ ~r.beside) => held = r.got[n]
    [] r.op = "extract" ->
         /\ r.ans = "ok" /\ (sure \/ ~r.beside) => held = r.got[n]
         /\ r.ans = "failed" /\ sure =>
              held \in said \/ (held = r.got[n] /\ (said # {0} \/ n \in r.kept))
         /\ r.ans = "none" => Extracts(r, n, held, said, sure)

Tells(r, n, held, said, sure) ==
  IF n \in r.all THEN Leaves(r, n, held, said, sure) ELSE sure => held \in said

Hand(h) == work[h] # Nobody
Calls ==
  /\ \A h \in Hands : Hand(h) =>
       /\ Shape(work[h]) /\ (work[h].left <=> h = "old")
       /\ work[h].pc = "fill" /\ work[h].ans = "none" => Holds(work[h], unsure)
  /\ Hand("old") => work["old"].ans = "none" /\ MayChange(work["old"]) \subseteq unsure
  /\ Hand("http") /\ ~work["http"].beside => ~Hand("old")
  /\ ~Hand("http") => \A n \in Names \ unsure : tree[n] \in told[n]
  /\ Hand("http") => \A n \in Names : Tells(work["http"], n, tree[n], told[n], n \notin unsure)

FilesInv == FilesTyped /\ Calls

-----------------------------------------------------------------------------

(* Of the other call a step changes only by which names its files are known. *)
Rest(p, c) ==
  /\ p.op = c.op /\ p.pc = c.pc /\ p.from = c.from /\ p.to = c.to /\ p.all = c.all /\ p.todo = c.todo
  /\ p.got = c.got /\ p.aim = c.aim /\ p.had = c.had /\ p.created = c.created /\ p.kept = c.kept
  /\ p.beside = c.beside /\ p.left = c.left /\ p.ans = c.ans

(* A step of the handling of a call: what it was, r, becomes q.              *)
After(h, q) == IF work[h].left /\ q.ans # "none" THEN Nobody ELSE q
Pursued(h, q) ==
  \E p \in FileCall \cup {Nobody} :
    /\ work' = [work EXCEPT ![h] = After(h, q), ![Other(h)] = p]
    /\ p = Nobody <=> work[Other(h)] = Nobody
    /\ p # Nobody => Rest(p, work[Other(h)]) /\ (p.pc = "fill" /\ p.ans = "none" => Holds(p, unsure'))

LEMMA Hands2 == \A h \in Hands : Other(h) \in Hands /\ Other(h) # h /\ Hands = {h, Other(h)}
BY DEF Hands, Other

(* Of a file that a call given up may still change, and that a request may   *)
(* meet, nothing is said.                                                    *)
LEMMA NothingSure ==
  ASSUME NEW r \in FileCall, r.beside, NEW n \in Names, NEW held, NEW said, NEW sure \in BOOLEAN, ~sure
  PROVE  Tells(r, n, held, said, sure)
<1>1. CASE r.op \in {"compress", "write", "upload", "remove"}
  BY <1>1 DEF Tells, Leaves
<1>2. CASE r.op = "move"
  BY <1>2 DEF Tells, Leaves
<1>3. CASE r.op = "copy"
  BY <1>3 DEF Tells, Leaves
<1>4. CASE r.op = "extract"
  BY <1>4 DEF Tells, Leaves, Extracts
<1>5. QED
  BY <1>1, <1>2, <1>3, <1>4 DEF FileCall

LEMMA RestTells ==
  ASSUME NEW p, NEW c \in FileCall, Rest(p, c)
  PROVE  /\ Shape(c) => Shape(p)
         /\ MayChange(p) = MayChange(c)
         /\ \A n, held, said, sure : Tells(c, n, held, said, sure) => Tells(p, n, held, said, sure)
<1>1. Shape(c) => Shape(p)
  BY DEF Rest, Shape
<1>2. MayChange(p) = MayChange(c)
  BY DEF Rest, MayChange
<1>3. Pending(p) = Pending(c)
  BY DEF Rest, Pending
<1>4. ASSUME NEW n, NEW held, NEW said, NEW sure, Leaves(c, n, held, said, sure) PROVE Leaves(p, n, held, said, sure)
  <2>1. Extracts(c, n, held, said, sure) => Extracts(p, n, held, said, sure)
    BY DEF Rest, Extracts
  <2>2. CASE c.op \in {"compress", "write", "upload", "remove", "move"}
    BY <1>4, <2>2 DEF Rest, Leaves
  <2>3. CASE c.op = "copy"
    BY <1>3, <1>4, <2>3 DEF Rest, Leaves
  <2>4. CASE c.op = "extract"
    BY <1>4, <2>1, <2>4 DEF Rest, Leaves
  <2>5. QED
    BY <2>2, <2>3, <2>4 DEF FileCall
<1>5. QED
  BY <1>1, <1>2, <1>4 DEF Tells, Rest

LEMMA HandSteps ==
  ASSUME FilesInv, NEW h \in Hands, Hand(h), NEW q \in FileCall, Pursued(h, q),
         q.op = work[h].op, q.left = work[h].left, q.beside = work[h].beside, Shape(q),
         q.op # "extract" => q.all = work[h].all,
         q.pc = "fill" /\ q.ans = "none" => Holds(q, unsure'),
         told' = told, unsure \subseteq unsure', unsure' \subseteq Names, h = "old" => unsure' = unsure,
         tree' \in [Names -> FileContent], packed' \in [Names -> FileContent],
         tried' \in [requests : Nat, mishaps : Nat],
         h = "old" => \A n \in Names \ unsure : tree'[n] = tree[n],
         h = "http" => \A n \in Names : Tells(q, n, tree'[n], told[n], n \notin unsure')
  PROVE  FilesInv'
<1>1. PICK r \in FileCall : r = work[h] /\ r # Nobody
  BY DEF Hand, FilesInv, FilesTyped
<1>2. PICK w \in FileCall \cup {Nobody} : w = After(h, q)
  BY DEF After
<1>3. PICK p \in FileCall \cup {Nobody} :
        /\ work' = [work EXCEPT ![h] = w, ![Other(h)] = p]
        /\ p = Nobody <=> work[Other(h)] = Nobody
        /\ p # Nobody => Rest(p, work[Other(h)]) /\ (p.pc = "fill" /\ p.ans = "none" => Holds(p, unsure'))
  BY <1>2 DEF Pursued
<1>4. work' \in [Hands -> FileCall \cup {Nobody}] /\ work'[h] = w /\ work'[Other(h)] = p
  BY <1>3, Hands2 DEF FilesInv, FilesTyped
<1>5. FilesTyped'
  BY <1>4 DEF FilesInv, FilesTyped
<1>6. r.left <=> h = "old"
  BY <1>1 DEF FilesInv, Calls, Hand
<1>7. q # Nobody
  BY NamesAssumption
<1>8. MayChange(q) = MayChange(r)
  BY <1>1 DEF MayChange
<1>9. PICK c : c = work[Other(h)]
  OBVIOUS
<1>10. p # Nobody => /\ c # Nobody /\ Shape(p) /\ p.left = c.left /\ p.ans = c.ans /\ p.beside = c.beside
                     /\ MayChange(p) = MayChange(c)
                     /\ \A n, held, said, sure : Tells(c, n, held, said, sure) => Tells(p, n, held, said, sure)
  <2>1. c # Nobody => Shape(c)
    BY <1>9, Hands2 DEF FilesInv, Calls, Hand
  <2>2. SUFFICES ASSUME p # Nobody PROVE c # Nobody /\ Rest(p, c)
    BY <1>9, <2>1, RestTells, Hands2 DEF Rest, FilesInv, FilesTyped
  <2>3. QED
    BY <1>3, <1>9, <2>2
<1>11. CASE h = "http"
  <2>1. w = q /\ work'["http"] = q /\ work'["old"] = p /\ Other(h) = "old"
    BY <1>1, <1>2, <1>4, <1>6, <1>11 DEF Other, After
  <2>2. \A g \in Hands : Hand(g)' =>
          /\ Shape(work'[g]) /\ (work'[g].left <=> g = "old")
          /\ work'[g].pc = "fill" /\ work'[g].ans = "none" => Holds(work'[g], unsure')
    <3>1. Shape(q) /\ ~q.left /\ (q.pc = "fill" /\ q.ans = "none" => Holds(q, unsure'))
      BY <1>1, <1>6, <1>11
    <3>2. p # Nobody => p.left
      BY <1>9, <1>10, <2>1 DEF FilesInv, Calls, Hand, Hands
    <3>3. QED
      BY <1>3, <1>10, <2>1, <3>1, <3>2 DEF Hands, Hand
  <2>3. Hand("old")' => work'["old"].ans = "none" /\ MayChange(work'["old"]) \subseteq unsure'
    BY <1>9, <1>10, <2>1 DEF FilesInv, Calls, Hand
  <2>4. Hand("http")' /\ ~work'["http"].beside => ~Hand("old")'
    BY <1>1, <1>3, <1>11, <2>1 DEF FilesInv, Calls, Hand
  <2>5. Hand("http")' /\ \A n \in Names : Tells(work'["http"], n, tree'[n], told'[n], n \notin unsure')
    BY <1>7, <1>11, <2>1 DEF Hand
  <2>6. QED
    BY <1>5, <2>2, <2>3, <2>4, <2>5 DEF FilesInv, Calls
<1>12. CASE h = "old"
  <2>1. /\ work'["old"] = w /\ work'["http"] = p /\ Other(h) = "http" /\ unsure' = unsure
        /\ w # Nobody => w = q /\ w.ans = "none"
    BY <1>1, <1>2, <1>4, <1>6, <1>12 DEF Other, After
  <2>2. \A n \in Names \ unsure : tree'[n] = tree[n]
    BY <1>12
  <2>3. ASSUME Hand("http")' PROVE \A n \in Names : Tells(p, n, tree'[n], told[n], n \notin unsure)
    <3>1. c \in FileCall /\ c.beside /\ p # Nobody /\ Hand("http")
      BY <1>1, <1>9, <1>10, <1>12, <2>1, <2>3 DEF FilesInv, FilesTyped, Calls, Hand, Hands
    <3>2. SUFFICES ASSUME NEW n \in Names PROVE Tells(c, n, tree'[n], told[n], n \notin unsure)
      BY <1>10, <3>1
    <3>3. CASE n \notin unsure
      BY <1>9, <2>1, <2>2, <3>1, <3>3 DEF FilesInv, Calls
    <3>4. CASE n \in unsure
      BY <3>1, <3>4, NothingSure
    <3>5. QED
      BY <3>3, <3>4
  <2>4. ~Hand("http")' => \A n \in Names \ unsure : tree'[n] \in told[n]
    BY <1>3, <2>1, <2>2 DEF FilesInv, Calls, Hand
  <2>5. \A g \in Hands : Hand(g)' =>
          /\ Shape(work'[g]) /\ (work'[g].left <=> g = "old")
          /\ work'[g].pc = "fill" /\ work'[g].ans = "none" => Holds(work'[g], unsure')
    <3>1. Shape(q) /\ q.left /\ (q.pc = "fill" /\ q.ans = "none" => Holds(q, unsure'))
      BY <1>1, <1>6, <1>12
    <3>2. p # Nobody => ~p.left
      BY <1>9, <1>10, <2>1 DEF FilesInv, Calls, Hand, Hands
    <3>3. QED
      BY <1>3, <1>10, <2>1, <3>1, <3>2 DEF Hands, Hand
  <2>6. Hand("old")' => work'["old"].ans = "none" /\ MayChange(work'["old"]) \subseteq unsure
    BY <1>1, <1>8, <1>12, <2>1 DEF FilesInv, Calls, Hand
  <2>7. Hand("http")' /\ ~work'["http"].beside => ~Hand("old")'
    BY <1>1, <1>9, <1>10, <1>12, <2>1 DEF FilesInv, Calls, Hand
  <2>8. QED
    BY <1>5, <2>1, <2>3, <2>4, <2>5, <2>6, <2>7 DEF FilesInv, Calls
<1>13. QED
  BY <1>11, <1>12 DEF Hands

(* The other hand goes on with its files where they were.                    *)
LEMMA AlonePursues ==
  ASSUME FilesInv, NEW h \in Hands, NEW q, work' = [work EXCEPT ![h] = After(h, q)], unsure \subseteq unsure'
  PROVE  Pursued(h, q)
<1>1. PICK p \in FileCall \cup {Nobody} : p = work[Other(h)]
  BY Hands2 DEF FilesInv, FilesTyped
<1>2. work' = [work EXCEPT ![h] = After(h, q), ![Other(h)] = p]
  BY <1>1, Hands2 DEF FilesInv, FilesTyped
<1>3. p # Nobody /\ p.pc = "fill" /\ p.ans = "none" => Holds(p, unsure')
  BY <1>1, Hands2 DEF FilesInv, Calls, Hand, Holds
<1>4. QED
  BY <1>1, <1>2, <1>3 DEF Pursued, Rest

(* A hand changes what names stand for, of its own files.                    *)
LEMMA MovesPursue ==
  ASSUME FilesInv, NEW h \in Hands, Hand(h), NEW q, NEW f \in [Names -> Names \cup {Nobody}], Moves(h, After(h, q), f),
         unsure \subseteq unsure', h = "old" => unsure' = unsure,
         \A n \in Names \ MayChange(work[h]) : f[n] = n,
         \A n \in unsure : f[n] \in unsure' \cup {Nobody}
  PROVE  Pursued(h, q)
<1>1. PICK c \in FileCall \cup {Nobody} : c = work[Other(h)]
  BY Hands2 DEF FilesInv, FilesTyped
<1>2. work' = [work EXCEPT ![h] = After(h, q), ![Other(h)] = Tracked(c, f)]
  BY <1>1, Hands2 DEF Moves, FilesInv, FilesTyped
<1>3. CASE c = Nobody
  BY <1>1, <1>2, <1>3 DEF Tracked, Pursued
<1>4. CASE c # Nobody
  <2>1. c \in FileCall /\ c.at \in Names \cup {Nobody} /\ c.src \in Names \cup {Nobody}
    BY <1>1, <1>4 DEF FileCall
  <2>2. PICK at \in Names \cup {Nobody} : at = Known(f, c.at)
    BY <2>1 DEF Known
  <2>3. PICK src \in Names \cup {Nobody} : src = Known(f, c.src)
    BY <2>1 DEF Known
  <2>4. PICK v \in FileContent : v = IF c.src # Nobody /\ f[c.src] = Nobody THEN tree[c.src] ELSE c.read
    BY <2>1 DEF FileCall, FilesInv, FilesTyped
  <2>5. PICK p : p = [c EXCEPT !.at = at, !.src = src, !.read = v]
    OBVIOUS
  <2>6. p = Tracked(c, f)
    BY <1>4, <2>2, <2>3, <2>4, <2>5 DEF Tracked
  <2>7. p \in FileCall /\ Rest(p, c) /\ p.at = at
    BY <2>1, <2>5 DEF FileCall, Rest
  <2>8. ASSUME p.pc = "fill", p.ans = "none" PROVE Holds(p, unsure')
    <3>1. Holds(c, unsure) /\ c.to \in Names /\ Shape(c) /\ (c.left <=> Other(h) = "old") /\ c.op = "copy" /\ c.pc = "fill"
      <4>0. c.pc = "fill" /\ c.ans = "none"
        BY <2>7, <2>8 DEF Rest
      <4>1. Holds(c, unsure) /\ Shape(c) /\ (c.left <=> Other(h) = "old") /\ c.pc = "fill"
        BY <1>1, <1>4, <4>0, Hands2 DEF FilesInv, Calls, Hand
      <4>2. QED
        BY <2>1, <4>1 DEF FileCall, Shape
    <3>2. CASE h = "http"
      <4>1. c.to \in unsure /\ c.left
        BY <1>1, <1>4, <3>1, <3>2 DEF FilesInv, Calls, Hand, Other, MayChange, Shape
      <4>2. c.at \in unsure \cup {Nobody}
        BY <3>1, <4>1 DEF Holds
      <4>3. at \in unsure' \cup {Nobody}
        BY <2>2, <4>2 DEF Known
      <4>4. QED
        BY <2>7, <4>1, <4>3 DEF Holds, Rest
    <3>3. CASE h = "old"
      <4>1. c.beside /\ unsure' = unsure /\ MayChange(work[h]) \subseteq unsure
        BY <1>1, <1>4, <3>3 DEF FilesInv, Calls, Hand, Other
      <4>2. CASE c.at \in unsure \cup {Nobody} /\ c.to \in unsure
        BY <2>2, <2>7, <4>1, <4>2 DEF Holds, Known, Rest
      <4>3. CASE c.at = c.to /\ c.to \notin unsure
        <5>1. c.to \in Names \ MayChange(work[h]) /\ c.at # Nobody
          BY <3>1, <4>1, <4>3, NamesAssumption
        <5>2. f[c.to] = c.to
          BY <5>1
        <5>3. at = c.to
          BY <2>2, <4>3, <5>1, <5>2 DEF Known
        <5>4. p.to = c.to /\ p.at = at
          BY <2>7 DEF Rest
        <5>5. QED
          BY <5>3, <5>4 DEF Holds
      <4>4. QED
        BY <3>1, <4>2, <4>3 DEF Holds
    <3>4. QED
      BY <3>2, <3>3 DEF Hands
  <2>9. QED
    BY <1>1, <1>2, <1>4, <2>6, <2>7, <2>8, NamesAssumption DEF Pursued
<1>5. QED
  BY <1>3, <1>4

LEMMA UnlinkPursues ==
  ASSUME FilesInv, NEW h \in Hands, Hand(h), NEW q, NEW n \in Names, Moves(h, After(h, q), Unlinked(n)),
         unsure' = unsure, n \in MayChange(work[h])
  PROVE  Pursued(h, q)
<1>1. PICK f \in [Names -> Names \cup {Nobody}] : f = Unlinked(n)
  BY DEF Unlinked, Same
<1>2. f[n] = Nobody /\ \A m \in Names \ {n} : f[m] = m
  BY <1>1 DEF Unlinked, Same
<1>3. unsure \subseteq Names
  BY DEF FilesInv, FilesTyped
<1>4. QED
  BY <1>1, <1>2, <1>3, MovesPursue

(* What a call given up changes is among the files of which nothing is said. *)
LEMMA OldChanges ==
  ASSUME FilesInv, Hand("old"), NEW n \in Names, n \in MayChange(work["old"])
  PROVE  n \in unsure
BY DEF FilesInv, Calls

Alike(q, r) ==
  /\ q.op = r.op /\ q.from = r.from /\ q.to = r.to /\ q.all = r.all
  /\ q.beside = r.beside /\ q.left = r.left /\ q.aim = r.aim /\ q.at = r.at

LEMMA Replies ==
  ASSUME FilesTyped, NEW h \in Hands, Hand(h), NEW ans \in {"ok", "failed"}
  PROVE  \E q \in FileCall : /\ After(h, q) = Replied(h, ans) /\ Alike(q, work[h]) /\ q.ans = ans
                             /\ q.pc = work[h].pc /\ q.todo = work[h].todo /\ q.got = work[h].got
                             /\ q.created = work[h].created /\ q.kept = work[h].kept /\ q.had = work[h].had
<1>1. PICK r \in FileCall : r = work[h]
  BY DEF FilesTyped, Hand
<1>2. PICK q : q = [r EXCEPT !.ans = ans]
  OBVIOUS
<1>3. /\ q \in FileCall /\ q.ans = ans /\ Alike(q, r) /\ q.pc = r.pc /\ q.todo = r.todo
      /\ q.got = r.got /\ q.created = r.created /\ q.kept = r.kept /\ q.had = r.had
  BY <1>2 DEF FileCall, Alike
<1>4. After(h, q) = Replied(h, ans)
  BY <1>1, <1>2, <1>3 DEF After, Replied
<1>5. QED
  BY <1>1, <1>3, <1>4

LEMMA AnswerPursues ==
  ASSUME FilesInv, NEW h \in Hands, Hand(h), NEW ans \in {"ok", "failed"}, AnswerTo(h, ans), unsure \subseteq unsure'
  PROVE  \E q \in FileCall : /\ Pursued(h, q) /\ Alike(q, work[h]) /\ q.ans = ans
                             /\ q.pc = work[h].pc /\ q.todo = work[h].todo /\ q.got = work[h].got
                             /\ q.created = work[h].created /\ q.kept = work[h].kept /\ q.had = work[h].had
<1>1. PICK q \in FileCall : /\ After(h, q) = Replied(h, ans) /\ Alike(q, work[h]) /\ q.ans = ans
                           /\ q.pc = work[h].pc /\ q.todo = work[h].todo /\ q.got = work[h].got
                           /\ q.created = work[h].created /\ q.kept = work[h].kept /\ q.had = work[h].had
  BY Replies DEF FilesInv
<1>2. Pursued(h, q)
  BY <1>1, AlonePursues DEF AnswerTo
<1>3. QED
  BY <1>1, <1>2

LEMMA MishapCounts ==
  ASSUME FilesTyped, Mishap
  PROVE  tried' \in [requests : Nat, mishaps : Nat]
<1>1. PICK n \in Nat : n = tried.mishaps + 1
  BY DEF FilesTyped
<1>2. tried' = [tried EXCEPT !.mishaps = n]
  BY <1>1 DEF Mishap
<1>3. QED
  BY <1>2 DEF FilesTyped

LEMMA InterruptedCounts ==
  ASSUME FilesTyped, NEW h \in Hands, Interrupted(h) \/ Mishap \/ tried' = tried
  PROVE  tried' \in [requests : Nat, mishaps : Nat]
BY MishapCounts DEF Interrupted, FilesTyped

LEMMA SetTyped ==
  ASSUME FilesTyped, NEW n \in Names, NEW v \in FileContent, Set(n, v)
  PROVE  tree' \in [Names -> FileContent] /\ tree'[n] = v /\ \A m \in Names \ {n} : tree'[m] = tree[m]
BY DEF FilesTyped, Set

LEMMA AtHand ==
  ASSUME FilesInv, NEW h \in Hands, NEW op, NEW pc, Handling(h, op, pc)
  PROVE  /\ Hand(h) /\ work[h] \in FileCall /\ work[h].ans = "none" /\ work[h].op = op /\ work[h].pc = pc
         /\ Shape(work[h])
BY DEF FilesInv, FilesTyped, Calls, Hand, Handling

LEMMA PutKeeps ==
  ASSUME FilesInv, NEW h \in Hands, Put(h) \/ PutFails(h)
  PROVE  FilesInv'
<1>1. PICK r \in FileCall : /\ r = work[h] /\ Hand(h) /\ r.ans = "none" /\ Shape(r)
                            /\ r.op \in {"write", "upload"} /\ r.pc = "put" /\ r.all = {r.to}
  BY AtHand DEF Put, PutFails, Shape
<1>2. PICK ans \in {"ok", "failed"} :
        \/ ans = "ok" /\ Set(r.to, r.got[r.to]) /\ Moves(h, Replied(h, "ok"), Unlinked(r.to))
        \/ ans = "failed" /\ tree' = tree /\ AnswerTo(h, "failed")
  BY <1>1 DEF Put, PutFails
<1>8. MayChange(r) = {r.to} /\ r.to \in Names
  BY <1>1 DEF MayChange, FileCall
<1>3. PICK q \in FileCall : /\ Pursued(h, q) /\ Alike(q, r) /\ q.ans = ans
                            /\ q.pc = r.pc /\ q.got = r.got
  <2>0. unsure' = unsure
    BY DEF Put, PutFails
  <2>1. CASE ans = "failed"
    BY <1>1, <1>2, <2>0, <2>1, AnswerPursues
  <2>2. CASE ans = "ok"
    <3>1. PICK q \in FileCall : /\ After(h, q) = Replied(h, "ok") /\ Alike(q, r) /\ q.ans = ans
                                /\ q.pc = r.pc /\ q.got = r.got
      BY <1>1, <2>2, Replies DEF FilesInv
    <3>2. Pursued(h, q)
      BY <1>1, <1>2, <1>8, <2>0, <2>2, <3>1, UnlinkPursues
    <3>3. QED
      BY <3>1, <3>2
  <2>3. QED
    BY <2>1, <2>2
<1>4. /\ tree' \in [Names -> FileContent] /\ \A n \in Names \ {r.to} : tree'[n] = tree[n]
      /\ ans = "ok" => tree'[r.to] = r.got[r.to]
      /\ ans = "failed" => tree' = tree
  <2>1. r.to \in Names /\ r.got[r.to] \in FileContent
    BY DEF FileCall
  <2>2. QED
    BY <1>2, <2>1, SetTyped DEF FilesInv, FilesTyped
<1>5. UNCHANGED <<packed, told, unsure>> /\ tried' \in [requests : Nat, mishaps : Nat]
  BY InterruptedCounts DEF Put, PutFails, FilesInv
<1>6. Shape(q)
  BY <1>1, <1>3 DEF Shape, Alike
<1>7. ASSUME h = "http", NEW n \in Names PROVE Tells(q, n, tree'[n], told[n], n \notin unsure)
  <2>1. Tells(r, n, tree[n], told[n], n \notin unsure)
    BY <1>1, <1>7 DEF FilesInv, Calls
  <2>2. QED
    BY <1>1, <1>2, <1>3, <1>4, <2>1 DEF Tells, Leaves, Alike
<1>9. h = "old" => \A n \in Names \ unsure : tree'[n] = tree[n]
  BY <1>1, <1>4, <1>8, OldChanges
<1>10. QED
  BY <1>1, <1>3, <1>4, <1>5, <1>6, <1>7, <1>9, HandSteps DEF Alike, FilesInv, FilesTyped

(* A step that changes none of the files, and of the call only what it has   *)
(* answered.                                                                 *)
LEMMA AnswerKeeps ==
  ASSUME FilesInv, NEW h \in Hands, Hand(h), work[h].ans = "none", NEW ans \in {"ok", "failed"}, AnswerTo(h, ans),
         UNCHANGED <<tree, told, unsure>>, packed' \in [Names -> FileContent], tried' \in [requests : Nat, mishaps : Nat],
         ans = "ok" => /\ work[h].op \in {"remove", "compress", "extract"}
                       /\ work[h].op = "extract" => work[h].pc = "look" /\ work[h].todo = {},
         ans = "failed" => /\ work[h].op # "remove"
                           /\ work[h].op = "extract" => \/ work[h].all = {}
                                                        \/ work[h].pc = "clean" /\ work[h].created = {}
  PROVE  FilesInv'
<1>1. PICK r \in FileCall : r = work[h] /\ Shape(r) /\ r.ans = "none"
  BY DEF FilesInv, FilesTyped, Calls, Hand
<1>2. PICK q \in FileCall : /\ Pursued(h, q) /\ Alike(q, r) /\ q.ans = ans
                            /\ q.pc = r.pc /\ q.todo = r.todo /\ q.got = r.got
                            /\ q.created = r.created /\ q.kept = r.kept /\ q.had = r.had
  BY <1>1, AnswerPursues
<1>3. Shape(q)
  BY <1>1, <1>2 DEF Shape, Alike
<1>4. ASSUME h = "http", NEW n \in Names PROVE Tells(q, n, tree'[n], told[n], n \notin unsure)
  <2>0. PICK held, said : held = tree[n] /\ said = told[n]
    OBVIOUS
  <2>1. PICK sure \in BOOLEAN : sure = (n \notin unsure)
    OBVIOUS
  <2>2. Tells(r, n, held, said, sure)
    BY <1>1, <1>4, <2>0, <2>1 DEF FilesInv, Calls
  <2>3. Tells(q, n, held, said, sure)
    <3>1. CASE r.op \in {"compress", "write", "upload", "remove"}
      BY <1>1, <1>2, <2>2, <3>1 DEF Tells, Leaves, Alike, Shape
    <3>2. CASE r.op = "move"
      BY <1>1, <1>2, <2>2, <3>2 DEF Tells, Leaves, Alike, Shape
    <3>3. CASE r.op = "copy"
      BY <1>1, <1>2, <2>2, <3>3 DEF Tells, Leaves, Alike, Shape
    <3>4. CASE r.op = "extract"
      BY <1>1, <1>2, <2>2, <3>4 DEF Tells, Leaves, Alike, Shape, Extracts
    <3>5. QED
      BY <3>1, <3>2, <3>3, <3>4 DEF FileCall
  <2>4. QED
    BY <2>0, <2>1, <2>3
<1>5. QED
  BY <1>1, <1>2, <1>3, <1>4, HandSteps DEF Alike, FilesInv, FilesTyped

(* What a copy under way may change: its target, or a file of which nothing  *)
(* is said.                                                                  *)
LEMMA WrittenByHand ==
  ASSUME FilesInv, NEW h \in Hands, Handling(h, "copy", "fill"), NEW v \in FileContent, WriteTo(work[h].at, v)
  PROVE  /\ tree' \in [Names -> FileContent]
         /\ \A n \in Names : n # work[h].at => tree'[n] = tree[n]
         /\ \A n \in Names : n = work[h].at /\ n # work[h].to => n \in unsure
         /\ work[h].to \in unsure \/ work[h].at = work[h].to
         /\ work[h].at = work[h].to => tree'[work[h].to] = v
         /\ h = "old" => \A n \in Names \ unsure : tree'[n] = tree[n]
         /\ h = "http" /\ ~work[h].beside => work[h].at = work[h].to
<1>1. PICK r \in FileCall : /\ r = work[h] /\ Hand(h) /\ r.ans = "none" /\ Shape(r) /\ r.op = "copy" /\ r.pc = "fill"
                            /\ r.at \in Names \cup {Nobody} /\ r.to \in Names /\ r.to \in r.all
  BY AtHand DEF FileCall, Shape
<1>2. Holds(r, unsure) /\ (r.left <=> h = "old")
  BY <1>1 DEF FilesInv, Calls
<1>3. CASE r.at = Nobody
  BY <1>1, <1>2, <1>3, NamesAssumption DEF WriteTo, Holds, FilesInv, FilesTyped
<1>4. CASE r.at \in Names
  <2>1. Set(r.at, v)
    BY <1>1, <1>4, NamesAssumption DEF WriteTo
  <2>2. tree' \in [Names -> FileContent] /\ tree'[r.at] = v /\ \A m \in Names \ {r.at} : tree'[m] = tree[m]
    BY <1>4, <2>1, SetTyped DEF FilesInv
  <2>3. h = "old" => r.at \in unsure
    <3>1. h = "old" => r.to \in unsure
      BY <1>1, OldChanges DEF MayChange
    <3>2. QED
      BY <1>2, <1>4, <3>1, NamesAssumption DEF Holds
  <2>4. QED
    BY <1>1, <1>2, <1>4, <2>2, <2>3, NamesAssumption DEF Holds
<1>5. QED
  BY <1>1, <1>3, <1>4

LEMMA CopyFailsKeeps ==
  ASSUME FilesInv, NEW h \in Hands, Handling(h, "copy", "fill"), CopyFails(h)
  PROVE  FilesInv'
<1>1. PICK r \in FileCall : /\ r = work[h] /\ Hand(h) /\ r.ans = "none" /\ Shape(r)
                            /\ r.op = "copy" /\ r.pc = "fill" /\ r.to \in r.all
  BY AtHand DEF Shape
<1>2. /\ WriteTo(r.at, Half) /\ Mishap /\ AnswerTo(h, "failed") /\ UNCHANGED <<packed, told, unsure>>
      /\ Half \in FileContent
  BY <1>1 DEF CopyFails, Handling, FileContent
<1>3. /\ tree' \in [Names -> FileContent]
      /\ \A n \in Names : n # r.at => tree'[n] = tree[n]
      /\ \A n \in Names : n = r.at /\ n # r.to => n \in unsure
      /\ r.at = r.to => tree'[r.to] = Half
      /\ h = "old" => \A n \in Names \ unsure : tree'[n] = tree[n]
  BY <1>1, <1>2, WrittenByHand
<1>4. tried' \in [requests : Nat, mishaps : Nat]
  BY <1>2, MishapCounts DEF FilesInv
<1>5. PICK q \in FileCall : /\ Pursued(h, q) /\ Alike(q, r) /\ q.ans = "failed" /\ q.pc = r.pc
                            /\ q.todo = r.todo /\ q.got = r.got /\ q.created = r.created
  BY <1>1, <1>2, AnswerPursues
<1>6. Shape(q)
  BY <1>1, <1>5 DEF Shape, Alike
<1>7. ASSUME h = "http", NEW n \in Names PROVE Tells(q, n, tree'[n], told[n], n \notin unsure)
  <2>1. Tells(r, n, tree[n], told[n], n \notin unsure)
    BY <1>1, <1>7 DEF FilesInv, Calls
  <2>2. CASE n = r.at
    BY <1>1, <1>3, <1>5, <2>2 DEF Tells, Leaves, Alike
  <2>3. CASE n # r.at
    BY <1>1, <1>3, <1>5, <2>1, <2>3 DEF Tells, Leaves, Alike
  <2>4. QED
    BY <2>2, <2>3
<1>8. QED
  BY <1>1, <1>2, <1>3, <1>4, <1>5, <1>6, <1>7, HandSteps DEF Alike, FilesInv, FilesTyped

LEMMA AnswersKeep ==
  ASSUME FilesInv, NEW h \in Hands,
         \/ Removed(h) \/ MoveFails(h) \/ CopyFails(h) \/ Packed(h) \/ PackFails(h)
         \/ PreflightFails(h) \/ AllExtracted(h) \/ Cleaned(h)
  PROVE  FilesInv'
<1>1. CASE Removed(h) \/ AllExtracted(h)
  <2>1. /\ Hand(h) /\ work[h].ans = "none" /\ AnswerTo(h, "ok") /\ UNCHANGED <<tree, packed, told, unsure, tried>>
        /\ work[h].op = "remove" \/ (work[h].op = "extract" /\ work[h].pc = "look" /\ work[h].todo = {})
    BY <1>1, AtHand DEF Removed, AllExtracted
  <2>2. QED
    BY <2>1, AnswerKeeps DEF FilesInv, FilesTyped
<1>2. CASE Packed(h)
  <2>1. /\ Hand(h) /\ work[h].ans = "none" /\ AnswerTo(h, "ok") /\ UNCHANGED <<tree, told, unsure, tried>>
        /\ work[h].op = "compress" /\ packed' = work[h].got /\ work[h] \in FileCall
    BY <1>2, AtHand DEF Packed
  <2>2. QED
    BY <2>1, AnswerKeeps DEF FilesInv, FilesTyped, FileCall
<1>3. CASE MoveFails(h) \/ (CopyFails(h) /\ Handling(h, "copy", "open")) \/ PackFails(h) \/ PreflightFails(h) \/ Cleaned(h)
  <2>1. /\ Hand(h) /\ work[h].ans = "none" /\ AnswerTo(h, "failed") /\ UNCHANGED <<tree, packed, told, unsure>>
        /\ Interrupted(h) \/ Mishap \/ tried' = tried
        /\ \/ work[h].op \in {"move", "copy", "compress"}
           \/ work[h].op = "extract" /\ work[h].pc = "preflight" /\ Shape(work[h])
           \/ work[h].op = "extract" /\ work[h].pc = "clean" /\ work[h].created = {}
    BY <1>3, AtHand DEF MoveFails, CopyFails, PackFails, PreflightFails, Cleaned, Handling
  <2>2. tried' \in [requests : Nat, mishaps : Nat] /\ packed' \in [Names -> FileContent]
    BY <2>1, InterruptedCounts DEF FilesInv, FilesTyped
  <2>3. work[h].op = "extract" => work[h].all = {} \/ (work[h].pc = "clean" /\ work[h].created = {})
    BY <2>1 DEF Shape
  <2>4. QED
    BY <2>1, <2>2, <2>3, AnswerKeeps
<1>4. QED
  BY <1>1, <1>2, <1>3, CopyFailsKeeps DEF CopyFails

LEMMA RemoveOneKeeps ==
  ASSUME FilesInv, NEW h \in Hands, RemoveOne(h)
  PROVE  FilesInv'
<1>1. PICK r \in FileCall : /\ r = work[h] /\ Hand(h) /\ r.ans = "none" /\ Shape(r)
                            /\ r.op = "remove" /\ r.pc = "each" /\ r.todo \subseteq r.all
  BY AtHand DEF RemoveOne, Shape
<1>2. PICK n \in r.todo :
        \/ Set(n, 0) /\ Moves(h, [r EXCEPT !.todo = @ \ {n}], Unlinked(n)) /\ tried' = tried
        \/ tree' = tree /\ work' = [work EXCEPT ![h].todo = @ \ {n}] /\ Mishap
  BY <1>1 DEF RemoveOne
<1>3. PICK q : q = [r EXCEPT !.todo = @ \ {n}]
  OBVIOUS
<1>4. q \in FileCall /\ Alike(q, r) /\ q.ans = "none" /\ q.pc = r.pc /\ q.todo = r.todo \ {n}
  BY <1>1, <1>3 DEF FileCall, Alike
<1>5. Pursued(h, q) /\ Shape(q)
  <2>1. Shape(q) /\ After(h, q) = q
    BY <1>1, <1>4 DEF Shape, Alike, After
  <2>2. n \in Names /\ n \in MayChange(r) /\ unsure' = unsure
    BY <1>1 DEF FileCall, MayChange, RemoveOne
  <2>3. CASE work' = [work EXCEPT ![h].todo = @ \ {n}]
    <3>1. work' = [work EXCEPT ![h] = q]
      BY <1>1, <1>3, <2>3 DEF FilesInv, FilesTyped
    <3>2. QED
      BY <2>1, <2>2, <3>1, AlonePursues
  <2>4. CASE Moves(h, q, Unlinked(n))
    BY <1>1, <2>1, <2>2, <2>4, UnlinkPursues
  <2>5. QED
    BY <1>2, <1>3, <2>1, <2>3, <2>4
<1>6. n \in Names /\ 0 \in FileContent
  BY DEF FileCall, FileContent
<1>7. /\ tree' \in [Names -> FileContent] /\ \A m \in Names \ {n} : tree'[m] = tree[m]
      /\ tree'[n] = 0 \/ tree' = tree
  BY <1>2, <1>6, SetTyped DEF FilesInv, FilesTyped
<1>8. tried' \in [requests : Nat, mishaps : Nat] /\ UNCHANGED <<packed, told, unsure>>
  BY <1>2, InterruptedCounts DEF RemoveOne, FilesInv
<1>9. ASSUME h = "http", NEW m \in Names PROVE Tells(q, m, tree'[m], told[m], m \notin unsure)
  <2>1. Tells(r, m, tree[m], told[m], m \notin unsure)
    BY <1>1, <1>9 DEF FilesInv, Calls
  <2>2. CASE m = n
    BY <1>1, <1>4, <1>7, <2>1, <2>2 DEF Tells, Leaves, Alike
  <2>3. CASE m # n
    BY <1>1, <1>4, <1>7, <2>1, <2>3 DEF Tells, Leaves, Alike
  <2>4. QED
    BY <2>2, <2>3
<1>10. h = "old" => \A m \in Names \ unsure : tree'[m] = tree[m]
  BY <1>1, <1>6, <1>7, OldChanges DEF MayChange
<1>11. QED
  BY <1>1, <1>4, <1>5, <1>7, <1>8, <1>9, <1>10, HandSteps DEF Alike, FilesInv, FilesTyped

LEMMA MoveKeeps ==
  ASSUME FilesInv, NEW h \in Hands, MoveFile(h)
  PROVE  FilesInv'
<1>1. PICK r \in FileCall : /\ r = work[h] /\ Hand(h) /\ r.ans = "none" /\ Shape(r)
                            /\ r.op = "move" /\ r.pc = "rename" /\ r.all = {r.from, r.to}
  BY AtHand DEF MoveFile, Shape
<1>2. UNCHANGED <<packed, told, tried>>
  BY DEF MoveFile
<1>3. r.from \in Names /\ r.to \in Names /\ tree[r.from] \in FileContent /\ unsure \subseteq Names
  BY DEF FileCall, FilesInv, FilesTyped
<1>4. CASE tree[r.from] = 0
  <2>1. AnswerTo(h, "failed") /\ tree' = tree /\ unsure' = unsure
    BY <1>1, <1>4 DEF MoveFile
  <2>2. QED
    BY <1>1, <1>2, <2>1, AnswerKeeps DEF FilesInv, FilesTyped
<1>5. CASE tree[r.from] # 0
  <2>1. PICK g \in [Names -> FileContent] : g = [Empty EXCEPT ![r.to] = tree[r.from]]
    BY <1>3 DEF Empty, FileContent
  <2>2. PICK q : q = [r EXCEPT !.ans = "ok", !.got = g]
    OBVIOUS
  <2>3. q \in FileCall /\ Alike(q, r) /\ q.ans = "ok" /\ q.pc = r.pc /\ q.got = g
    BY <1>1, <2>2 DEF FileCall, Alike
  <2>4. /\ Moves(h, After(h, q), Renamed(r.from, r.to))
        /\ tree' = [tree EXCEPT ![r.from] = 0, ![r.to] = tree[r.from]]
        /\ unsure' = IF r.from \in unsure THEN unsure \cup {r.to} ELSE unsure
    BY <1>1, <1>5, <2>1, <2>2, <2>3 DEF MoveFile, After
  <2>5. r.from \in MayChange(r) /\ r.to \in MayChange(r)
    BY <1>1 DEF MayChange
  <2>6. unsure \subseteq unsure' /\ unsure' \subseteq Names /\ (h = "old" => unsure' = unsure)
    BY <1>1, <1>3, <2>4, <2>5, OldChanges
  <2>7. Pursued(h, q)
    <3>1. PICK f \in [Names -> Names \cup {Nobody}] : f = Renamed(r.from, r.to)
      BY <1>3 DEF Renamed, Same
    <3>2. f[r.from] = r.to /\ \A n \in Names \ {r.from} : f[n] = IF n = r.to THEN Nobody ELSE n
      BY <1>3, <3>1 DEF Renamed, Same
    <3>3. \A n \in unsure : f[n] \in unsure' \cup {Nobody}
      BY <1>3, <2>4, <3>2
    <3>4. \A n \in Names \ MayChange(r) : f[n] = n
      BY <2>5, <3>2
    <3>5. QED
      BY <1>1, <2>4, <2>6, <3>1, <3>3, <3>4, MovesPursue
  <2>8. Shape(q)
    BY <1>1, <2>3 DEF Shape, Alike
  <2>9. /\ tree' \in [Names -> FileContent] /\ \A n \in Names \ {r.from, r.to} : tree'[n] = tree[n]
        /\ tree'[r.to] = g[r.to]
        /\ r.from # r.to => tree'[r.from] = 0
    BY <1>3, <2>1, <2>4 DEF FilesInv, FilesTyped, FileContent, Empty
  <2>10. ASSUME h = "http", NEW n \in Names PROVE Tells(q, n, tree'[n], told[n], n \notin unsure')
    <3>1. Tells(r, n, tree[n], told[n], n \notin unsure)
      BY <1>1, <2>10 DEF FilesInv, Calls
    <3>2. CASE n \in r.all
      <4>1. tree'[n] = IF n = r.from /\ r.from # r.to THEN 0 ELSE q.got[n]
        BY <1>1, <2>3, <2>9, <3>2
      <4>2. q.op = "move" /\ q.ans = "ok" /\ q.from = r.from /\ q.to = r.to /\ q.all = r.all
        BY <1>1, <2>3 DEF Alike
      <4>3. QED
        BY <3>2, <4>1, <4>2 DEF Tells, Leaves
    <3>3. CASE n \notin r.all
      BY <1>1, <2>3, <2>6, <2>9, <3>1, <3>3 DEF Tells, Alike
    <3>4. QED
      BY <3>2, <3>3
  <2>11. h = "old" => \A n \in Names \ unsure : tree'[n] = tree[n]
    BY <1>1, <1>3, <2>5, <2>9, OldChanges
  <2>12. QED
    BY <1>1, <1>2, <2>3, <2>6, <2>7, <2>8, <2>9, <2>10, <2>11, HandSteps DEF Alike, FilesInv, FilesTyped
<1>6. QED
  BY <1>4, <1>5

LEMMA OpenKeeps ==
  ASSUME FilesInv, NEW h \in Hands, Open(h)
  PROVE  FilesInv'
<1>1. PICK r \in FileCall : /\ r = work[h] /\ Hand(h) /\ r.ans = "none" /\ Shape(r)
                            /\ r.op = "copy" /\ r.pc = "open" /\ \A n \in r.todo : r.aim[n] \in r.all
  BY AtHand DEF Open, Shape
<1>2. UNCHANGED <<packed, told, unsure, tried>>
  BY DEF Open
<1>3. PICK c \in FileCall \cup {Nobody} : c = work[Other(h)]
  BY Hands2 DEF FilesInv, FilesTyped
<1>4. PICK n \in r.todo :
        LET both == c # Nobody /\ c.pc = "fill" /\ c.at = r.aim[n]
            q == [r EXCEPT !.pc = "fill", !.todo = @ \ {n}, !.to = r.aim[n], !.at = r.aim[n], !.src = n, !.mixed = both]
        IN IF n = r.aim[n] \/ tree[n] = 0 THEN AnswerTo(h, "failed") /\ tree' = tree
           ELSE /\ Set(r.aim[n], Half)
                /\ work' = [work EXCEPT ![h] = q, ![Other(h)] = IF both THEN [c EXCEPT !.mixed = TRUE] ELSE c]
  BY <1>1, <1>3 DEF Open
<1>0. PICK m \in Names : m = r.aim[n]
  BY DEF FileCall
<1>5. CASE n = m \/ tree[n] = 0
  BY <1>0, <1>1, <1>2, <1>4, <1>5, AnswerKeeps DEF FilesInv, FilesTyped
<1>6. CASE ~(n = m \/ tree[n] = 0)
  <2>1. PICK both \in BOOLEAN : both = (c # Nobody /\ c.pc = "fill" /\ c.at = m)
    OBVIOUS
  <2>2. PICK q : q = [r EXCEPT !.pc = "fill", !.todo = @ \ {n}, !.to = m, !.at = m, !.src = n, !.mixed = both]
    OBVIOUS
  <2>3. PICK p : p = IF both THEN [c EXCEPT !.mixed = TRUE] ELSE c
    OBVIOUS
  <2>4. /\ q \in FileCall /\ q.op = r.op /\ q.all = r.all /\ q.beside = r.beside /\ q.left = r.left /\ q.aim = r.aim
        /\ q.got = r.got /\ q.created = r.created /\ q.ans = "none" /\ q.pc = "fill"
        /\ q.todo = r.todo \ {n} /\ q.to = m /\ q.at = m
    BY <1>1, <2>2 DEF FileCall
  <2>5. p \in FileCall \cup {Nobody} /\ (p = Nobody <=> c = Nobody) /\ (p # Nobody => Rest(p, c) /\ p.at = c.at)
    <3>1. CASE both
      <4>1. c \in FileCall /\ p = [c EXCEPT !.mixed = TRUE]
        BY <2>1, <2>3, <3>1
      <4>2. p \in FileCall /\ Rest(p, c) /\ p.at = c.at
        BY <4>1 DEF Rest, FileCall
      <4>3. QED
        BY <2>1, <3>1, <4>2, NamesAssumption
    <3>2. CASE ~both
      BY <2>3, <3>2 DEF Rest
    <3>3. QED
      BY <3>1, <3>2
  <2>6. work' = [work EXCEPT ![h] = q, ![Other(h)] = p]
    BY <1>0, <1>4, <1>6, <2>1, <2>2, <2>3
  <2>7. Pursued(h, q)
    <3>1. After(h, q) = q
      BY <2>4 DEF After
    <3>2. p # Nobody /\ p.pc = "fill" /\ p.ans = "none" => Holds(p, unsure')
      <4>1. c # Nobody /\ c.pc = "fill" /\ c.ans = "none" => Holds(c, unsure)
        BY <1>3, Hands2 DEF FilesInv, Calls, Hand
      <4>2. QED
        BY <1>2, <2>5, <4>1 DEF Holds, Rest
    <3>3. QED
      BY <1>3, <2>5, <2>6, <3>1, <3>2 DEF Pursued
  <2>8. m \in r.all /\ Half \in FileContent
    BY <1>0, <1>1, <1>4 DEF FileContent
  <2>9. Shape(q)
    BY <1>1, <2>4, <2>8 DEF Shape
  <2>10. tree' \in [Names -> FileContent] /\ tree'[m] = Half /\ \A k \in Names \ {m} : tree'[k] = tree[k]
    BY <1>0, <1>4, <1>6, <2>8, SetTyped DEF FilesInv
  <2>11. Pending(q) = Pending(r) /\ m \in Pending(q)
    BY <1>0, <1>1, <1>4, <2>4 DEF Pending
  <2>12. ASSUME h = "http", NEW k \in Names PROVE Tells(q, k, tree'[k], told[k], k \notin unsure)
    <3>1. Tells(r, k, tree[k], told[k], k \notin unsure)
      BY <1>1, <2>12 DEF FilesInv, Calls
    <3>2. CASE k = m
      BY <1>1, <2>4, <2>8, <2>10, <2>11, <3>2 DEF Tells, Leaves
    <3>3. CASE k # m
      BY <1>1, <2>4, <2>10, <2>11, <3>1, <3>3 DEF Tells, Leaves
    <3>4. QED
      BY <3>2, <3>3
  <2>13. h = "old" => \A k \in Names \ unsure : tree'[k] = tree[k]
    BY <1>1, <2>8, <2>10, OldChanges DEF MayChange
  <2>14. Holds(q, unsure')
    BY <2>4 DEF Holds
  <2>15. QED
    BY <1>1, <1>2, <2>4, <2>7, <2>9, <2>10, <2>12, <2>13, <2>14, HandSteps DEF FilesInv, FilesTyped
<1>7. QED
  BY <1>5, <1>6

LEMMA FillKeeps ==
  ASSUME FilesInv, NEW h \in Hands, Fill(h)
  PROVE  FilesInv'
<1>1. PICK r \in FileCall : /\ r = work[h] /\ Hand(h) /\ r.ans = "none" /\ Shape(r)
                            /\ r.op = "copy" /\ r.pc = "fill" /\ r.to \in r.all /\ \A n \in r.todo : r.aim[n] \in r.all
  BY AtHand DEF Fill, Shape
<1>2. UNCHANGED <<packed, told, unsure, tried>> /\ Handling(h, "copy", "fill")
  BY DEF Fill
<1>3. PICK v \in FileContent :
        LET t == [r EXCEPT !.pc = "open", !.got[r.to] = v, !.created = @ \cup {r.to}]
        IN /\ WriteTo(r.at, v)
           /\ work' = [work EXCEPT ![h] =
                IF t.todo # {} THEN t ELSE IF t.left THEN Nobody ELSE [t EXCEPT !.ans = "ok"]]
  <2>1. Source(r) \in FileContent /\ Half \in FileContent
    <3>1. r.src \in Names \cup {Nobody} /\ r.read \in FileContent
      BY DEF FileCall
    <3>2. QED
      BY <3>1 DEF Source, FileContent, FilesInv, FilesTyped
  <2>2. QED
    BY <1>1, <2>1 DEF Fill
<1>4. /\ tree' \in [Names -> FileContent]
      /\ \A n \in Names : n # r.at => tree'[n] = tree[n]
      /\ \A n \in Names : n = r.at /\ n # r.to => n \in unsure
      /\ r.to \in unsure \/ r.at = r.to
      /\ r.at = r.to => tree'[r.to] = v
      /\ h = "old" => \A n \in Names \ unsure : tree'[n] = tree[n]
      /\ h = "http" /\ ~r.beside => r.at = r.to
  BY <1>1, <1>2, <1>3, WrittenByHand
<1>5. PICK g \in [Names -> FileContent] : g = [r.got EXCEPT ![r.to] = v]
  BY DEF FileCall
<1>6. PICK ans \in {"none", "ok"} : ans = IF r.todo # {} THEN "none" ELSE "ok"
  OBVIOUS
<1>7. PICK made \in SUBSET Names : made = r.created \cup {r.to}
  BY DEF FileCall
<1>0. PICK q : q = [r EXCEPT !.pc = "open", !.got = g, !.created = made, !.ans = ans]
  OBVIOUS
<1>8. r.to \in Names /\ g[r.to] = v /\ \A n \in Names \ {r.to} : g[n] = r.got[n]
  BY <1>5 DEF FileCall
<1>9. /\ q \in FileCall /\ q.op = r.op /\ q.all = r.all /\ q.beside = r.beside /\ q.left = r.left /\ q.aim = r.aim
      /\ q.got = g /\ q.created = r.created \cup {r.to} /\ q.ans = ans /\ q.pc = "open" /\ q.todo = r.todo
  <2>1. /\ q \in FileCall /\ q.op = r.op /\ q.all = r.all /\ q.beside = r.beside /\ q.left = r.left /\ q.aim = r.aim
        /\ q.got = g /\ q.created = made /\ q.ans = ans /\ q.pc = "open" /\ q.todo = r.todo
    BY <1>0 DEF FileCall
  <2>2. QED
    BY <1>7, <2>1
<1>10. Pursued(h, q)
  <2>1. PICK t : t = [r EXCEPT !.pc = "open", !.got = g, !.created = made]
    OBVIOUS
  <2>2. t.todo = r.todo /\ t.left = r.left /\ t.ans = "none" /\ t \in FileCall
    BY <1>1, <2>1 DEF FileCall
  <2>6. t = [r EXCEPT !.pc = "open", !.got[r.to] = v, !.created = @ \cup {r.to}]
    BY <1>5, <1>7, <2>1 DEF FileCall
  <2>3. work' = [work EXCEPT ![h] = IF r.todo # {} THEN t ELSE IF r.left THEN Nobody ELSE [t EXCEPT !.ans = "ok"]]
    BY <1>3, <2>2, <2>6
  <2>4. After(h, q) = IF r.todo # {} THEN t ELSE IF r.left THEN Nobody ELSE [t EXCEPT !.ans = "ok"]
    <3>1. CASE r.todo # {}
      <4>1. q = t
        BY <1>0, <1>1, <1>6, <2>1, <3>1 DEF FileCall
      <4>2. QED
        BY <1>6, <1>9, <3>1, <4>1 DEF After
    <3>2. CASE r.todo = {}
      BY <1>0, <1>1, <1>6, <1>9, <2>1, <3>2 DEF After, FileCall
    <3>3. QED
      BY <3>1, <3>2
  <2>5. QED
    BY <1>2, <2>3, <2>4, AlonePursues
<1>11. Shape(q)
  BY <1>1, <1>9 DEF Shape
<1>12. Pending(r) = Pending(q) \cup {r.to} /\ (ans = "ok" => Pending(q) = {})
  BY <1>1, <1>6, <1>9 DEF Pending
<1>13. ASSUME h = "http", NEW n \in Names PROVE Tells(q, n, tree'[n], told[n], n \notin unsure)
  <2>1. Tells(r, n, tree[n], told[n], n \notin unsure)
    BY <1>1, <1>13 DEF FilesInv, Calls
  <2>2. CASE n = r.to
    BY <1>1, <1>4, <1>8, <1>9, <1>13, <2>2 DEF Tells, Leaves
  <2>3. CASE n # r.to /\ n = r.at
    BY <1>1, <1>4, <1>9, <1>13, <2>3 DEF Tells, Leaves
  <2>4. CASE n # r.to /\ n # r.at
    <3>1. tree'[n] = tree[n] /\ g[n] = r.got[n] /\ (n \in q.created <=> n \in r.created)
      BY <1>4, <1>8, <1>9, <2>4
    <3>2. ans = "ok" => n \notin Pending(r)
      BY <1>12, <2>4
    <3>3. n \notin Pending(q) => n \notin Pending(r)
      BY <1>12, <2>4
    <3>4. QED
      BY <1>1, <1>9, <2>1, <3>1, <3>2, <3>3 DEF Tells, Leaves
  <2>5. QED
    BY <2>2, <2>3, <2>4
<1>14. QED
  BY <1>1, <1>2, <1>4, <1>9, <1>10, <1>11, <1>13, HandSteps DEF FilesInv, FilesTyped

LEMMA PackKeeps ==
  ASSUME FilesInv, NEW h \in Hands, Pack(h)
  PROVE  FilesInv'
<1>1. PICK r \in FileCall : /\ r = work[h] /\ Hand(h) /\ r.ans = "none" /\ Shape(r)
                            /\ r.op = "compress" /\ r.pc = "each"
  BY AtHand DEF Pack
<1>2. UNCHANGED <<tree, packed, told, unsure, tried>>
  BY DEF Pack
<1>3. CASE AnswerTo(h, "failed")
  BY <1>1, <1>2, <1>3, AnswerKeeps DEF FilesInv, FilesTyped
<1>4. CASE \E n \in r.todo : work' = [work EXCEPT ![h].todo = @ \ {n}, ![h].got[n] = tree[n]]
  <2>1. PICK n \in r.todo : work' = [work EXCEPT ![h].todo = @ \ {n}, ![h].got[n] = tree[n]]
    BY <1>4
  <2>2. PICK g \in [Names -> FileContent] : g = [r.got EXCEPT ![n] = tree[n]]
    BY DEF FileCall, FilesInv, FilesTyped
  <2>3. PICK q : q = [r EXCEPT !.todo = @ \ {n}, !.got = g]
    OBVIOUS
  <2>4. q \in FileCall /\ Alike(q, r) /\ q.ans = "none" /\ q.pc = "each"
    BY <1>1, <2>3 DEF FileCall, Alike
  <2>5. work' = [work EXCEPT ![h] = q]
    <3>1. /\ work' = [work EXCEPT ![h] = [[r EXCEPT !.todo = @ \ {n}] EXCEPT !.got = [@ EXCEPT ![n] = tree[n]]]]
          /\ [r EXCEPT !.todo = @ \ {n}].got = r.got
      BY <1>1, <2>1 DEF FilesInv, FilesTyped, FileCall
    <3>2. [[r EXCEPT !.todo = @ \ {n}] EXCEPT !.got = [@ EXCEPT ![n] = tree[n]]] = q
      BY <2>2, <2>3, <3>1 DEF FileCall
    <3>3. QED
      BY <3>1, <3>2
  <2>6. Pursued(h, q) /\ Shape(q)
    BY <1>1, <1>2, <2>4, <2>5, AlonePursues DEF After, Shape, Alike
  <2>7. ASSUME h = "http", NEW m \in Names PROVE Tells(q, m, tree'[m], told[m], m \notin unsure)
    <3>1. Tells(r, m, tree[m], told[m], m \notin unsure)
      BY <1>1, <2>7 DEF FilesInv, Calls
    <3>2. QED
      BY <1>1, <1>2, <2>4, <3>1 DEF Tells, Leaves, Alike
  <2>8. QED
    BY <1>1, <1>2, <2>4, <2>6, <2>7, HandSteps DEF Alike, FilesInv, FilesTyped
<1>5. QED
  BY <1>1, <1>3, <1>4 DEF Pack

LEMMA FirstIsOne ==
  ASSUME NEW todo \in SUBSET Names, todo # {}
  PROVE  First(todo) \in todo
<1>1. IsFiniteSet(todo)
  BY NamesAssumption, FS_Subset
<1>2. [n \in todo |-> n] \in [todo -> Int]
  BY NamesAssumption
<1>3. PICK n \in todo : \A m \in todo : [k \in todo |-> k][n] <= [k \in todo |-> k][m]
  BY <1>1, <1>2, Least
<1>4. \A m \in todo : n <= m
  BY <1>3
<1>5. QED
  BY <1>4 DEF First

LEMMA PreflightKeeps ==
  ASSUME FilesInv, NEW h \in Hands, Preflight(h)
  PROVE  FilesInv'
<1>1. PICK r \in FileCall : /\ r = work[h] /\ Hand(h) /\ r.ans = "none" /\ Shape(r)
                            /\ r.op = "extract" /\ r.pc = "preflight" /\ r.all = {} /\ r.created = {}
  <2>1. /\ work[h] \in FileCall /\ Hand(h) /\ work[h].ans = "none" /\ Shape(work[h])
        /\ work[h].op = "extract" /\ work[h].pc = "preflight"
    BY AtHand DEF Preflight
  <2>2. work[h].all = {} /\ work[h].created \subseteq work[h].all \ work[h].todo
    BY <2>1 DEF Shape
  <2>3. QED
    BY <2>1, <2>2
<1>2. UNCHANGED <<tree, packed, told, unsure, tried>>
  BY DEF Preflight
<1>3. CASE AnswerTo(h, "failed")
  BY <1>1, <1>2, <1>3, AnswerKeeps DEF FilesInv, FilesTyped
<1>4. CASE ~AnswerTo(h, "failed")
  <2>1. PICK some \in SUBSET Names : some = {n \in Names : packed[n] # 0}
    OBVIOUS
  <2>2. work' = [work EXCEPT ![h].pc = "look", ![h].got = packed, ![h].todo = some, ![h].all = some]
    BY <1>4, <2>1 DEF Preflight
  <2>3. PICK q : q = [r EXCEPT !.pc = "look", !.got = packed, !.todo = some, !.all = some]
    OBVIOUS
  <2>4. /\ q \in FileCall /\ q.op = "extract" /\ q.ans = "none" /\ q.pc = "look"
        /\ q.all = some /\ q.todo = some /\ q.created = {} /\ q.left = r.left /\ q.beside = r.beside
    BY <1>1, <2>3 DEF FileCall, FilesInv, FilesTyped
  <2>5. work' = [work EXCEPT ![h] = q]
    BY <1>1, <2>2, <2>3 DEF FilesInv, FilesTyped
  <2>6. Pursued(h, q) /\ Shape(q)
    BY <1>1, <1>2, <2>4, <2>5, AlonePursues DEF After, Shape
  <2>7. ASSUME h = "http", NEW n \in Names PROVE Tells(q, n, tree'[n], told[n], n \notin unsure)
    <3>1. Tells(r, n, tree[n], told[n], n \notin unsure)
      BY <1>1, <2>7 DEF FilesInv, Calls
    <3>2. n \notin unsure => tree[n] \in told[n]
      BY <1>1, <3>1 DEF Tells
    <3>3. QED
      BY <1>2, <2>4, <3>2 DEF Tells, Leaves, Extracts
  <2>8. QED
    BY <1>1, <1>2, <2>4, <2>6, <2>7, HandSteps DEF FilesInv, FilesTyped
<1>5. QED
  BY <1>3, <1>4

(* A step of an extraction that is not answered yet.                         *)
LEMMA ExtractSteps ==
  ASSUME FilesInv, NEW h \in Hands, NEW r \in FileCall, r = work[h], Hand(h), r.op = "extract", r.ans = "none",
         NEW q \in FileCall, Pursued(h, q), Alike(q, r), q.ans = "none", Shape(q),
         UNCHANGED <<packed, told, unsure>>, tree' \in [Names -> FileContent],
         tried' \in [requests : Nat, mishaps : Nat],
         \A n \in Names \ r.all : tree'[n] = tree[n],
         \A n \in r.all, said \in SUBSET FileContent, sure \in BOOLEAN :
           Extracts(r, n, tree[n], said, sure) => Extracts(q, n, tree'[n], said, sure)
  PROVE  FilesInv'
<1>2. ASSUME h = "http", NEW n \in Names PROVE Tells(q, n, tree'[n], told[n], n \notin unsure)
  <2>0. PICK sure \in BOOLEAN : sure = (n \notin unsure)
    OBVIOUS
  <2>1. Tells(r, n, tree[n], told[n], sure) /\ told[n] \in SUBSET FileContent
    BY <1>2, <2>0 DEF FilesInv, FilesTyped, Calls
  <2>2. CASE n \in r.all
    <3>1. Extracts(r, n, tree[n], told[n], sure)
      BY <2>1, <2>2 DEF Tells, Leaves
    <3>2. Extracts(q, n, tree'[n], told[n], sure)
      BY <2>1, <2>2, <3>1
    <3>3. QED
      BY <2>0, <2>2, <3>2 DEF Tells, Leaves, Alike
  <2>3. CASE n \notin r.all
    BY <2>0, <2>1, <2>3 DEF Tells, Alike
  <2>4. QED
    BY <2>2, <2>3
<1>3. h = "old" => \A n \in Names \ unsure : tree'[n] = tree[n]
  BY OldChanges DEF MayChange
<1>4. q.pc # "fill"
  BY DEF Shape, Alike
<1>5. QED
  BY <1>2, <1>3, <1>4, HandSteps DEF Alike, FilesInv, FilesTyped

LEMMA ExtractPursues ==
  ASSUME FilesInv, NEW h \in Hands, Hand(h), work[h].op = "extract", NEW q, q.ans = "none", unsure' = unsure,
         \/ work' = [work EXCEPT ![h] = q]
         \/ \E n \in Names : Moves(h, q, Unlinked(n))
  PROVE  Pursued(h, q)
<1>1. After(h, q) = q /\ MayChange(work[h]) = Names
  BY DEF After, MayChange
<1>2. QED
  BY <1>1, AlonePursues, UnlinkPursues

LEMMA LookAtEntryKeeps ==
  ASSUME FilesInv, NEW h \in Hands, LookAtEntry(h)
  PROVE  FilesInv'
<1>1. PICK r \in FileCall : /\ r = work[h] /\ Hand(h) /\ r.ans = "none" /\ Shape(r)
                            /\ r.op = "extract" /\ r.pc = "look" /\ r.todo # {}
  BY AtHand DEF LookAtEntry
<1>2. UNCHANGED <<tree, packed, told, unsure, tried>>
  BY DEF LookAtEntry
<1>3. PICK had \in BOOLEAN : had = (tree[First(r.todo)] # 0)
  OBVIOUS
<1>4. work' = [work EXCEPT ![h].pc = "entry", ![h].had = had]
  BY <1>1, <1>3 DEF LookAtEntry, NextEntry, First
<1>5. PICK q : q = [r EXCEPT !.pc = "entry", !.had = had]
  OBVIOUS
<1>6. /\ q \in FileCall /\ Alike(q, r) /\ q.ans = "none" /\ q.pc = "entry" /\ q.had = had
      /\ q.todo = r.todo /\ q.created = r.created /\ q.got = r.got /\ q.kept = r.kept
  BY <1>1, <1>5 DEF FileCall, Alike
<1>7. Pursued(h, q)
  <2>1. work' = [work EXCEPT ![h] = q]
    BY <1>1, <1>4, <1>5 DEF FilesInv, FilesTyped
  <2>2. QED
    BY <1>1, <1>2, <1>6, <2>1, ExtractPursues
<1>8. Shape(q)
  BY <1>1, <1>6 DEF Shape, Alike
<1>9. ASSUME NEW n \in r.all, NEW said \in SUBSET FileContent, NEW sure \in BOOLEAN, Extracts(r, n, tree[n], said, sure)
      PROVE  Extracts(q, n, tree'[n], said, sure)
  BY <1>1, <1>2, <1>3, <1>6, <1>9 DEF Extracts, Alike
<1>10. QED
  BY <1>1, <1>2, <1>6, <1>7, <1>8, <1>9, ExtractSteps DEF FilesInv, FilesTyped

LEMMA EntryKeeps ==
  ASSUME FilesInv, NEW h \in Hands, Entry(h)
  PROVE  FilesInv'
<1>1. PICK r \in FileCall : /\ r = work[h] /\ Hand(h) /\ r.ans = "none" /\ Shape(r)
                            /\ r.op = "extract" /\ r.pc = "entry" /\ r.todo # {}
                            /\ r.todo \subseteq r.all /\ r.created \subseteq r.all \ r.todo
  BY AtHand DEF Entry, Shape
<1>2. PICK n \in r.todo : n = First(r.todo)
  BY <1>1, FirstIsOne DEF FileCall
<1>3. n \in Names /\ n \in r.all /\ r.got[n] \in FileContent
  BY <1>1 DEF FileCall
<1>4. PICK c \in SUBSET Names : c = IF r.had THEN r.created ELSE r.created \cup {n}
  BY <1>3 DEF FileCall
<1>5. /\ Set(n, r.got[n])
      /\ Moves(h, [r EXCEPT !.pc = "look", !.todo = @ \ {n}, !.created = c], Unlinked(n))
  BY <1>1, <1>2, <1>4 DEF Entry, NextEntry, First, Created
<1>6. tree' \in [Names -> FileContent] /\ tree'[n] = r.got[n] /\ \A m \in Names \ {n} : tree'[m] = tree[m]
  BY <1>3, <1>5, SetTyped DEF FilesInv
<1>7. PICK q : q = [r EXCEPT !.pc = "look", !.todo = @ \ {n}, !.created = c]
  OBVIOUS
<1>8. /\ q \in FileCall /\ Alike(q, r) /\ q.ans = "none" /\ q.pc = "look"
      /\ q.todo = r.todo \ {n} /\ q.created = c /\ q.got = r.got /\ q.kept = r.kept
  BY <1>1, <1>7 DEF FileCall, Alike
<1>9. Pursued(h, q)
  BY <1>1, <1>3, <1>5, <1>7, <1>8, ExtractPursues DEF Entry
<1>10. c \subseteq r.all \ (r.todo \ {n})
  BY <1>1, <1>3, <1>4
<1>11. Shape(q)
  BY <1>1, <1>8, <1>10 DEF Shape, Alike
<1>12. ASSUME NEW m \in r.all, NEW said \in SUBSET FileContent, NEW sure \in BOOLEAN, Extracts(r, m, tree[m], said, sure)
       PROVE  Extracts(q, m, tree'[m], said, sure)
  <2>1. m \in Names
    BY DEF FileCall
  <2>2. CASE m = n
    <3>1. n \notin q.todo /\ (n \in q.created <=> ~r.had) /\ q.pc = "look" /\ tree'[n] = q.got[n] /\ n \in r.todo
      BY <1>1, <1>4, <1>6, <1>8 DEF FileCall
    <3>2. sure => tree[n] \in said /\ (r.had <=> tree[n] # 0)
      BY <1>1, <1>2, <1>12, <2>2, <3>1 DEF Extracts
    <3>3. QED
      BY <2>2, <3>1, <3>2 DEF Extracts
  <2>3. CASE m # n
    <3>1. /\ tree'[m] = tree[m] /\ (m \in q.todo <=> m \in r.todo) /\ (m \in q.created <=> m \in r.created)
          /\ q.pc = "look" /\ q.got = r.got /\ q.kept = r.kept /\ q.beside = r.beside /\ r.pc # "clean"
      BY <1>1, <1>4, <1>6, <1>8, <2>1, <2>3 DEF Alike
    <3>2. QED
      BY <1>12, <3>1 DEF Extracts
  <2>4. QED
    BY <2>2, <2>3
<1>13. UNCHANGED <<packed, told, unsure, tried>>
  BY DEF Entry
<1>14. \A m \in Names \ r.all : tree'[m] = tree[m]
  BY <1>3, <1>6
<1>15. tried' \in [requests : Nat, mishaps : Nat]
  BY <1>13 DEF FilesInv, FilesTyped
<1>16. QED
  BY <1>1, <1>6, <1>8, <1>9, <1>11, <1>12, <1>13, <1>14, <1>15, ExtractSteps

LEMMA EntryFailsKeeps ==
  ASSUME FilesInv, NEW h \in Hands, EntryFails(h)
  PROVE  FilesInv'
<1>1. PICK r \in FileCall : /\ r = work[h] /\ Hand(h) /\ r.ans = "none" /\ Shape(r)
                            /\ r.op = "extract" /\ r.pc \in {"look", "entry"}
  BY AtHand DEF EntryFails
<1>2. UNCHANGED <<tree, packed, told, unsure>> /\ tried' \in [requests : Nat, mishaps : Nat]
  BY InterruptedCounts DEF EntryFails, FilesInv
<1>3. PICK q : q = [r EXCEPT !.pc = "clean"]
  OBVIOUS
<1>4. /\ q \in FileCall /\ Alike(q, r) /\ q.ans = "none" /\ q.pc = "clean"
      /\ q.todo = r.todo /\ q.created = r.created /\ q.got = r.got /\ q.kept = r.kept
  BY <1>1, <1>3 DEF FileCall, Alike
<1>5. Pursued(h, q)
  <2>1. work' = [work EXCEPT ![h] = q]
    BY <1>1, <1>3 DEF EntryFails, FilesInv, FilesTyped
  <2>2. QED
    BY <1>1, <1>2, <1>4, <2>1, ExtractPursues
<1>6. Shape(q)
  BY <1>1, <1>4 DEF Shape, Alike
<1>7. ASSUME NEW n \in r.all, NEW said \in SUBSET FileContent, NEW sure \in BOOLEAN, Extracts(r, n, tree[n], said, sure)
      PROVE  Extracts(q, n, tree'[n], said, sure)
  BY <1>1, <1>2, <1>4, <1>7 DEF Extracts, Alike
<1>8. QED
  BY <1>1, <1>2, <1>4, <1>5, <1>6, <1>7, ExtractSteps DEF FilesInv, FilesTyped

LEMMA CleanOneKeeps ==
  ASSUME FilesInv, NEW h \in Hands, CleanOne(h)
  PROVE  FilesInv'
<1>1. PICK r \in FileCall : /\ r = work[h] /\ Hand(h) /\ r.ans = "none" /\ Shape(r)
                            /\ r.op = "extract" /\ r.pc = "clean"
                            /\ r.todo \subseteq r.all /\ r.created \subseteq r.all \ r.todo
  BY AtHand DEF CleanOne, Shape
<1>2. PICK n \in r.created :
        LET t == [r EXCEPT !.created = @ \ {n}]
        IN \/ Set(n, 0) /\ Moves(h, t, Unlinked(n)) /\ tried' = tried
           \/ tree' = tree /\ work' = [work EXCEPT ![h] = [t EXCEPT !.kept = @ \cup {n}]] /\ Mishap
  BY <1>1 DEF CleanOne
<1>3. n \in Names /\ n \in r.all /\ n \notin r.todo /\ 0 \in FileContent /\ unsure' = unsure
  BY <1>1 DEF FileCall, FileContent, CleanOne
<1>4. PICK kept \in SUBSET Names :
        /\ \/ kept = r.kept /\ Set(n, 0) /\ tried' = tried /\ Moves(h, [r EXCEPT !.created = @ \ {n}], Unlinked(n))
           \/ /\ kept = r.kept \cup {n} /\ tree' = tree /\ Mishap
              /\ work' = [work EXCEPT ![h] = [[r EXCEPT !.created = @ \ {n}] EXCEPT !.kept = @ \cup {n}]]
  BY <1>2, <1>3 DEF FileCall
<1>5. PICK made \in SUBSET Names : made = r.created \ {n}
  BY DEF FileCall
<1>6. PICK q : q = [r EXCEPT !.created = made, !.kept = kept]
  OBVIOUS
<1>7. /\ q \in FileCall /\ Alike(q, r) /\ q.ans = "none" /\ q.pc = "clean"
      /\ q.todo = r.todo /\ q.created = r.created \ {n} /\ q.got = r.got /\ q.kept = kept
  <2>1. /\ q \in FileCall /\ Alike(q, r) /\ q.ans = "none" /\ q.pc = "clean"
        /\ q.todo = r.todo /\ q.created = made /\ q.got = r.got /\ q.kept = kept
    BY <1>1, <1>6 DEF FileCall, Alike
  <2>2. QED
    BY <1>5, <2>1
<1>8. Shape(q)
  BY <1>1, <1>7 DEF Shape, Alike
<1>9. Pursued(h, q)
  <2>1. CASE kept = r.kept /\ Moves(h, [r EXCEPT !.created = @ \ {n}], Unlinked(n))
    <3>1. q = [r EXCEPT !.created = @ \ {n}]
      BY <1>5, <1>6, <2>1 DEF FileCall
    <3>2. QED
      BY <1>1, <1>3, <1>7, <2>1, <3>1, ExtractPursues
  <2>2. CASE /\ kept = r.kept \cup {n}
             /\ work' = [work EXCEPT ![h] = [[r EXCEPT !.created = @ \ {n}] EXCEPT !.kept = @ \cup {n}]]
    <3>1. q = [[r EXCEPT !.created = @ \ {n}] EXCEPT !.kept = @ \cup {n}]
      BY <1>5, <1>6, <2>2 DEF FileCall
    <3>2. QED
      BY <1>1, <1>3, <1>7, <2>2, <3>1, ExtractPursues
  <2>3. QED
    BY <1>4, <2>1, <2>2
<1>10. /\ tree' \in [Names -> FileContent] /\ \A m \in Names \ {n} : tree'[m] = tree[m]
       /\ \A m \in Names \ {n} : m \in kept <=> m \in r.kept
       /\ tree'[n] = 0 \/ (tree' = tree /\ n \in kept)
       /\ tried' \in [requests : Nat, mishaps : Nat]
  <2>1. CASE kept = r.kept /\ Set(n, 0) /\ tried' = tried
    BY <1>3, <2>1, SetTyped DEF FilesInv, FilesTyped
  <2>2. CASE kept = r.kept \cup {n} /\ tree' = tree /\ Mishap
    BY <2>2, MishapCounts DEF FilesInv, FilesTyped
  <2>3. QED
    BY <1>4, <2>1, <2>2
<1>11. ASSUME NEW m \in r.all, NEW said \in SUBSET FileContent, NEW sure \in BOOLEAN, Extracts(r, m, tree[m], said, sure)
       PROVE  Extracts(q, m, tree'[m], said, sure)
  <2>1. m \in Names
    BY DEF FileCall
  <2>2. CASE m = n
    <3>1. sure => 0 \in said /\ tree[n] = r.got[n]
      BY <1>1, <1>3, <1>11, <2>2 DEF Extracts
    <3>2. tree'[n] = 0 \/ (tree'[n] = tree[n] /\ n \in q.kept)
      BY <1>7, <1>10
    <3>3. n \notin q.todo /\ n \notin q.created /\ q.pc = "clean" /\ q.got = r.got
      BY <1>3, <1>7
    <3>4. QED
      BY <2>2, <3>1, <3>2, <3>3 DEF Extracts
  <2>3. CASE m # n
    <3>1. tree'[m] = tree[m] /\ (m \in kept <=> m \in r.kept)
      BY <1>10, <2>1, <2>3
    <3>2. QED
      BY <1>1, <1>7, <1>11, <2>3, <3>1 DEF Extracts, Alike
  <2>4. QED
    BY <2>2, <2>3
<1>12. UNCHANGED <<packed, told, unsure>>
  BY DEF CleanOne
<1>13. \A m \in Names \ r.all : tree'[m] = tree[m]
  BY <1>3, <1>10
<1>14. q \in FileCall /\ Alike(q, r) /\ q.ans = "none"
  BY <1>7
<1>15. QED
  BY <1>1, <1>8, <1>9, <1>10, <1>11, <1>12, <1>13, <1>14, ExtractSteps

LEMMA FileAnsweredKeeps ==
  ASSUME FilesInv, FileAnswered
  PROVE  FilesInv'
<1>1. PICK r \in FileCall : /\ r = work["http"] /\ Hand("http") /\ Shape(r)
                            /\ r.ans \in {"ok", "failed"}
  BY DEF FileAnswered, FilesInv, FilesTyped, Calls, Hand, Hands, FileCall
<1>2. PICK touched \in SUBSET Names : touched = IF r.op = "compress" THEN {} ELSE r.all
  BY DEF FileCall
<1>3. /\ told' = [n \in Names |-> IF n \notin touched THEN told[n]
                                  ELSE IF r.ans = "ok" THEN ToldOk(r, n) ELSE ToldFailed(r, n)]
      /\ unsure' = IF r.beside \/ r.ans # "ok" \/ r.op = "remove" THEN unsure ELSE unsure \ touched
      /\ work' = [work EXCEPT !["http"] = Nobody]
      /\ UNCHANGED <<tree, packed, tried>>
  BY <1>1, <1>2 DEF FileAnswered
<1>4. work' \in [Hands -> FileCall \cup {Nobody}] /\ work'["http"] = Nobody /\ work'["old"] = work["old"]
  BY <1>3 DEF FilesInv, FilesTyped, Hands
<1>5. ASSUME NEW n \in Names PROVE told'[n] \in SUBSET FileContent /\ (n \notin unsure' => tree[n] \in told'[n])
  <2>1. told'[n] = IF n \notin touched THEN told[n]
                   ELSE IF r.ans = "ok" THEN ToldOk(r, n) ELSE ToldFailed(r, n)
    BY <1>3
  <2>2. PICK sure \in BOOLEAN : sure = (n \notin unsure)
    OBVIOUS
  <2>3. PICK held \in FileContent, said \in SUBSET FileContent : held = tree[n] /\ said = told[n]
    BY DEF FilesInv, FilesTyped
  <2>4. Tells(r, n, held, said, sure)
    BY <1>1, <2>2, <2>3 DEF FilesInv, Calls
  <2>5. r.got[n] \in FileContent /\ 0 \in FileContent /\ Half \in FileContent
    BY DEF FileCall, FileContent
  <2>6. CASE n \notin touched
    BY <1>2, <1>3, <2>1, <2>2, <2>3, <2>4, <2>6 DEF Tells, Leaves
  <2>7. CASE n \in touched
    <3>1. r.op # "compress" /\ Leaves(r, n, held, said, sure)
      BY <1>2, <2>4, <2>7 DEF Tells
    <3>2. CASE r.ans = "ok"
      <4>1. told'[n] = IF r.op = "remove" THEN said \cup {0}
                       ELSE IF n = r.from /\ r.op = "move" /\ r.from # r.to THEN {0} ELSE {r.got[n]}
        BY <2>1, <2>3, <2>7, <3>2 DEF ToldOk
      <4>2. n \notin unsure' => IF r.op = "remove" THEN sure ELSE sure \/ ~r.beside
        BY <1>3, <2>2, <2>7, <3>2
      <4>3. CASE r.op \in {"write", "upload", "remove"}
        BY <2>3, <2>5, <3>1, <3>2, <4>1, <4>2, <4>3 DEF Leaves
      <4>4. CASE r.op = "move"
        BY <2>3, <2>5, <3>1, <3>2, <4>1, <4>2, <4>4 DEF Leaves
      <4>5. CASE r.op \in {"copy", "extract"}
        BY <2>3, <2>5, <3>1, <3>2, <4>1, <4>2, <4>5 DEF Leaves
      <4>6. QED
        BY <3>1, <4>3, <4>4, <4>5 DEF FileCall
    <3>3. CASE r.ans = "failed"
      <4>1. told'[n] = ToldFailed(r, n) /\ (n \notin unsure' => sure)
        BY <1>3, <2>1, <2>2, <2>7, <3>3
      <4>2. CASE r.op \in {"write", "upload", "move"}
        BY <2>3, <2>5, <3>1, <3>3, <4>1, <4>2 DEF Leaves, ToldFailed
      <4>3. CASE r.op = "copy"
        BY <2>3, <2>5, <3>1, <3>3, <4>1, <4>3 DEF Leaves, ToldFailed
      <4>4. CASE r.op = "extract"
        BY <2>3, <2>5, <3>1, <3>3, <4>1, <4>4 DEF Leaves, ToldFailed
      <4>5. r.op # "remove"
        BY <1>1, <3>3 DEF Shape
      <4>6. QED
        BY <3>1, <4>2, <4>3, <4>4, <4>5 DEF FileCall
    <3>4. QED
      BY <1>1, <3>2, <3>3
  <2>8. QED
    BY <2>6, <2>7
<1>6. told' \in [Names -> SUBSET FileContent]
  <2>1. \A n \in Names : told'[n] = IF n \notin touched THEN told[n]
                         ELSE IF r.ans = "ok" THEN ToldOk(r, n) ELSE ToldFailed(r, n)
    BY <1>3
  <2>2. \A n \in Names : (IF n \notin touched THEN told[n]
                         ELSE IF r.ans = "ok" THEN ToldOk(r, n) ELSE ToldFailed(r, n)) \in SUBSET FileContent
    BY <1>5, <2>1
  <2>3. QED
    BY <1>3, <2>2
<1>7. FilesTyped'
  BY <1>3, <1>4, <1>6 DEF FilesInv, FilesTyped
<1>8. Hand("old") => unsure' = unsure \/ r.beside
  BY <1>1 DEF FilesInv, Calls
<1>9. Hand("old")' => work'["old"].ans = "none" /\ MayChange(work'["old"]) \subseteq unsure'
  BY <1>3, <1>4, <1>8 DEF FilesInv, Calls, Hand
<1>10. \A h \in Hands : Hand(h)' =>
         /\ Shape(work'[h]) /\ (work'[h].left <=> h = "old")
         /\ work'[h].pc = "fill" /\ work'[h].ans = "none" => Holds(work'[h], unsure')
  <2>1. Hand("old") => /\ Shape(work["old"]) /\ work["old"].left
                       /\ work["old"].pc = "fill" /\ work["old"].ans = "none" => Holds(work["old"], unsure)
    BY DEF FilesInv, Calls, Hands
  <2>2. Hand("old") => unsure' = unsure
    BY <1>1, <1>3, <1>8 DEF FilesInv, Calls
  <2>3. QED
    BY <1>4, <2>1, <2>2 DEF Hand, Hands
<1>11. QED
  BY <1>3, <1>4, <1>5, <1>7, <1>9, <1>10 DEF FilesInv, Calls, Hand

LEMMA StopWaitingKeeps ==
  ASSUME FilesInv, StopWaiting
  PROVE  FilesInv'
<1>1. PICK r \in FileCall : /\ r = work["http"] /\ Hand("http") /\ Shape(r) /\ r.ans = "none"
  BY DEF StopWaiting, FilesInv, FilesTyped, Calls, Hand, Hands
<1>2. PICK q : q = [r EXCEPT !.left = TRUE]
  OBVIOUS
<1>3. /\ q \in FileCall /\ q.left = TRUE /\ q.ans = "none" /\ q.op = r.op /\ q.pc = r.pc /\ q.all = r.all
      /\ q.todo = r.todo /\ q.from = r.from /\ q.to = r.to /\ q.created = r.created
      /\ q.aim = r.aim /\ q.at = r.at /\ q.beside = r.beside
  BY <1>1, <1>2 DEF FileCall
<1>4. /\ work' = [work EXCEPT !["http"] = Nobody, !["old"] = q]
      /\ unsure' = unsure \cup MayChange(r)
      /\ UNCHANGED <<tree, packed, told>> /\ tried' \in [requests : Nat, mishaps : Nat]
  BY <1>1, <1>2, MishapCounts DEF StopWaiting, MayChange, FilesInv
<1>5. work' \in [Hands -> FileCall \cup {Nobody}] /\ work'["http"] = Nobody /\ work'["old"] = q
  BY <1>3, <1>4 DEF FilesInv, FilesTyped, Hands
<1>6. MayChange(q) = MayChange(r) /\ MayChange(r) \subseteq Names
  BY <1>3 DEF MayChange, FileCall
<1>7. Shape(q)
  BY <1>1, <1>3 DEF Shape
<1>8. FilesTyped'
  BY <1>4, <1>5, <1>6 DEF FilesInv, FilesTyped
<1>9. ASSUME NEW n \in Names, n \notin unsure' PROVE tree[n] \in told[n]
  <2>1. n \notin unsure /\ n \notin MayChange(r)
    BY <1>4, <1>9
  <2>2. Tells(r, n, tree[n], told[n], TRUE)
    BY <1>1, <2>1 DEF FilesInv, Calls
  <2>3. n \in r.all => r.op = "compress"
    BY <2>1 DEF MayChange, FileCall
  <2>4. QED
    BY <2>2, <2>3 DEF Tells, Leaves
<1>10. q.pc = "fill" => Holds(q, unsure')
  <2>1. r.pc = "fill" => Holds(r, unsure)
    BY <1>1 DEF FilesInv, Calls, Hands
  <2>2. QED
    BY <1>3, <1>4, <2>1 DEF Holds
<1>11. QED
  BY <1>3, <1>4, <1>5, <1>6, <1>7, <1>8, <1>9, <1>10 DEF FilesInv, Calls, Hand, Hands

(* A request finds what the answers before it have told.                     *)
LEMMA AskKeeps ==
  ASSUME FilesInv, NEW op, NEW pc, NEW from \in Names, NEW to \in Names, NEW all \in SUBSET Names,
         NEW todo \in SUBSET Names, NEW aim \in [Names -> Names], Ask(op, pc, from, to, all, todo, aim),
         \/ op \in {"write", "upload"} /\ pc = "put" /\ all = {to}
         \/ op \in {"remove", "compress"} /\ pc = "each" /\ all = todo
         \/ op = "move" /\ pc = "rename" /\ all = {from, to}
         \/ op = "copy" /\ pc = "open" /\ all = {aim[n] : n \in todo}
         \/ op = "extract" /\ pc = "preflight" /\ all = {} /\ todo = {}
  PROVE  FilesInv'
<1>1. PICK k \in Nat : k = tried.requests + 1
  BY DEF FilesInv, FilesTyped
<1>2. PICK g : g = [Empty EXCEPT ![to] = tried.requests + 2]
  OBVIOUS
<1>3. g \in [Names -> FileContent]
  BY <1>2 DEF Empty, FileContent, FilesInv, FilesTyped
<1>4. PICK beside \in BOOLEAN : beside = (work["old"] # Nobody)
  OBVIOUS
<1>5. PICK q : q = [op |-> op, pc |-> pc, from |-> from, to |-> to, all |-> all, todo |-> todo,
                    got |-> g, aim |-> aim, at |-> Nobody, src |-> Nobody, read |-> 0, mixed |-> FALSE,
                    had |-> FALSE, created |-> {}, kept |-> {},
                    beside |-> beside, left |-> FALSE, ans |-> "none"]
  OBVIOUS
<1>6. /\ q \in FileCall /\ q.op = op /\ q.pc = pc /\ q.from = from /\ q.to = to /\ q.all = all /\ q.todo = todo
      /\ q.aim = aim /\ q.created = {} /\ q.beside = beside /\ q.left = FALSE /\ q.ans = "none"
  BY <1>3, <1>5 DEF FileCall, FileContent
<1>7. /\ work' = [work EXCEPT !["http"] = q] /\ tried' = [tried EXCEPT !.requests = k]
      /\ work["http"] = Nobody /\ UNCHANGED <<tree, packed, told, unsure>>
  BY <1>1, <1>2, <1>4, <1>5 DEF Ask
<1>8. work' \in [Hands -> FileCall \cup {Nobody}] /\ work'["http"] = q /\ work'["old"] = work["old"]
  BY <1>6, <1>7 DEF FilesInv, FilesTyped, Hands
<1>9. FilesTyped'
  BY <1>7, <1>8 DEF FilesInv, FilesTyped
<1>10. Shape(q)
  BY <1>6 DEF Shape
<1>11. ASSUME NEW n \in Names PROVE Tells(q, n, tree[n], told[n], n \notin unsure)
  <2>1. n \notin unsure => tree[n] \in told[n]
    BY <1>7 DEF FilesInv, Calls, Hand
  <2>2. op = "copy" => Pending(q) = all
    BY <1>6 DEF Pending
  <2>3. op \notin {"extract", "copy"} => Tells(q, n, tree[n], told[n], n \notin unsure)
    BY <1>6, <2>1 DEF Tells, Leaves
  <2>4. op = "copy" => Tells(q, n, tree[n], told[n], n \notin unsure)
    BY <1>6, <2>1, <2>2 DEF Tells, Leaves
  <2>5. op = "extract" => Tells(q, n, tree[n], told[n], n \notin unsure)
    BY <1>6, <2>1 DEF Tells, Leaves
  <2>6. QED
    BY <2>3, <2>4, <2>5
<1>12. pc # "fill"
  OBVIOUS
<1>13. QED
  BY <1>4, <1>6, <1>7, <1>8, <1>9, <1>10, <1>11, <1>12 DEF FilesInv, Calls, Hand, Hands

LEMMA RequestsKeep ==
  ASSUME FilesInv,
         \/ \E n \in Names : AskWrite(n)
         \/ \E s \in SUBSET Names : AskRemove(s) \/ AskCompress(s)
         \/ \E n, m \in Names : AskMove(n, m)
         \/ \E s \in SUBSET Names, aim \in [Names -> Names] : AskCopy(s, aim)
         \/ AskExtract
  PROVE  FilesInv'
<1>0. Same \in [Names -> Names]
  BY DEF Same
<1>1. CASE \E n \in Names : AskWrite(n)
  BY <1>0, <1>1, AskKeeps DEF AskWrite
<1>2. CASE \E s \in SUBSET Names : AskRemove(s) \/ AskCompress(s)
  <2>1. PICK s \in SUBSET Names, n \in Names : Ask("remove", "each", n, n, s, s, Same) \/ Ask("compress", "each", n, n, s, s, Same)
    BY <1>2 DEF AskRemove, AskCompress, AskFor
  <2>2. QED
    BY <1>0, <2>1, AskKeeps
<1>3. CASE \E n, m \in Names : AskMove(n, m)
  BY <1>0, <1>3, AskKeeps DEF AskMove
<1>4. CASE \E s \in SUBSET Names, aim \in [Names -> Names] : AskCopy(s, aim)
  <2>1. PICK s \in SUBSET Names, aim \in [Names -> Names], n \in Names :
          Ask("copy", "open", n, n, {aim[k] : k \in s}, s, aim)
    BY <1>4 DEF AskCopy, AskFor
  <2>2. {aim[k] : k \in s} \in SUBSET Names
    OBVIOUS
  <2>3. QED
    BY <2>1, <2>2, AskKeeps
<1>5. CASE AskExtract
  BY <1>0, <1>5, AskKeeps DEF AskExtract
<1>6. QED
  BY <1>1, <1>2, <1>3, <1>4, <1>5

LEMMA FilesStart ==
  ASSUME FilesInit
  PROVE  FilesInv
<1>1. tree \in [Names -> FileContent] /\ packed \in [Names -> FileContent]
  BY DEF FilesInit, Empty, FileContent
<1>2. told \in [Names -> SUBSET FileContent] /\ \A n \in Names : tree[n] \in told[n]
  BY <1>1 DEF FilesInit
<1>3. QED
  BY <1>1, <1>2 DEF FilesInit, FilesInv, FilesTyped, Calls, Hand, Hands

LEMMA FilesStep ==
  ASSUME FilesInv, [FilesNext]_fileVars
  PROVE  FilesInv'
<1>1. CASE UNCHANGED fileVars
  BY <1>1 DEF FilesInv, FilesTyped, Calls, Hand, fileVars
<1>2. CASE \/ \E n \in Names : AskWrite(n)
           \/ \E s \in SUBSET Names : AskRemove(s) \/ AskCompress(s)
           \/ \E n, m \in Names : AskMove(n, m)
           \/ \E s \in SUBSET Names, aim \in [Names -> Names] : AskCopy(s, aim)
           \/ AskExtract
  BY <1>2, RequestsKeep
<1>3. ASSUME NEW h \in Hands, Put(h) \/ PutFails(h) \/ RemoveOne(h) \/ MoveFile(h) \/ Open(h) \/ Fill(h) \/ Pack(h)
      PROVE  FilesInv'
  BY <1>3, PutKeeps, RemoveOneKeeps, MoveKeeps, OpenKeeps, FillKeeps, PackKeeps
<1>4. ASSUME NEW h \in Hands,
             \/ Removed(h) \/ MoveFails(h) \/ CopyFails(h) \/ Packed(h) \/ PackFails(h)
             \/ PreflightFails(h) \/ AllExtracted(h) \/ Cleaned(h)
      PROVE  FilesInv'
  BY <1>4, AnswersKeep
<1>5. ASSUME NEW h \in Hands, Preflight(h) \/ LookAtEntry(h) \/ Entry(h) \/ EntryFails(h) \/ CleanOne(h)
      PROVE  FilesInv'
  BY <1>5, PreflightKeeps, LookAtEntryKeeps, EntryKeeps, EntryFailsKeeps, CleanOneKeeps
<1>6. CASE FileAnswered \/ StopWaiting
  BY <1>6, FileAnsweredKeeps, StopWaitingKeeps
<1>7. QED
  BY <1>1, <1>2, <1>3, <1>4, <1>5, <1>6 DEF FilesNext

(* Whatever calls were given up, what a request under way has done to a file *)
(* and what its answer will make of it fit together, in every step.          *)
THEOREM FilesInvariant == FilesSpec => []FilesInv
<1>1. ASSUME FilesInv, [FilesNext]_fileVars PROVE FilesInv'
  BY <1>1, FilesStep
<1>2. FilesInit => FilesInv
  BY FilesStart
<1>3. QED
  BY <1>1, <1>2, PTL DEF FilesSpec

(* What the answers of the file manager said of a file is so, but for what a *)
(* call that was given up may still do.                                      *)
THEOREM AnswersAlwaysHold == FilesSpec => []AnswersHold
<1>1. ASSUME FilesInv PROVE AnswersHold
  <2>1. SUFFICES ASSUME NEW n \in Names \ unsure, work["http"] = Nobody \/ n \notin work["http"].all
                 PROVE  tree[n] \in told[n]
    BY DEF AnswersHold
  <2>2. CASE ~Hand("http")
    BY <1>1, <2>2 DEF FilesInv, Calls
  <2>3. CASE Hand("http")
    <3>1. n \notin work["http"].all
      BY <2>1, <2>3 DEF Hand
    <3>2. Tells(work["http"], n, tree[n], told[n], n \notin unsure)
      BY <1>1, <2>3 DEF FilesInv, Calls
    <3>3. QED
      BY <3>1, <3>2 DEF Tells
  <2>4. QED
    BY <2>2, <2>3
<1>2. QED
  BY <1>1, FilesInvariant, PTL
=============================================================================
