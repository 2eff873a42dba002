----------------------------- MODULE PanelSettings -----------------------------
(* The configuration file that the panel and the agent share                 *)
(* (internal/app/config.go): each reads it when it starts and keeps it in     *)
(* memory; the security settings (internal/settings/service.go) are changed   *)
(* in the panel's memory, written to the file by the agent from its own       *)
(* memory, and only then made live.  Of the settings there is the path of the *)
(* login, without which nobody can log in, and one of the limits, which are   *)
(* looked at after it.                                                        *)
EXTENDS Naturals

CONSTANTS
  Entries,       \* login paths
  Limits,        \* values of the limit
  Wrong,         \* no valid path: none, or one that ValidateLoginPath refuses
  Off,           \* a process that does not run
  MaxChanges,    \* bound: updates and edits
  MaxStarts,     \* bound: starts of a process
  MaxTroubles    \* bound: failures and stops

ASSUME EntriesAssumption ==
  /\ Wrong \notin Entries
  /\ Off \notin [new : [entry : Entries \cup {Off}, limit : Limits \cup {Off}],
               at : {"panel", "agent", "ok", "failed"}, left : BOOLEAN]

VARIABLES
  file,          \* the file
  mem,           \* what each process has in memory, Off when it is down
  start,         \* how far the start of each process is
  live,          \* what the panel enforces
  update,        \* the one request that changes settings
  count          \* what the bounds count; history: what makes file and panel differ

panelVars == <<file, mem, start, live, update, count>>

Processes == {"panel", "agent"}
Settings == [entry : Entries, limit : Limits]

PanelInit ==
  /\ file \in [entry : Entries \cup {Wrong}, limit : Limits]
  /\ mem = [p \in Processes |-> Off] /\ start = [p \in Processes |-> "down"]
  /\ live = Off /\ update = Off
  /\ count = [changes |-> 0, starts |-> 0, troubles |-> 0, why |-> {}]

Up(p) == start[p] = "up"
Trouble(why) ==
  /\ count.troubles < MaxTroubles
  /\ count' = [count EXCEPT !.troubles = @ + 1, !.why = @ \cup why]

-----------------------------------------------------------------------------
(* LoadConfig.                                                               *)

Load(p) ==
  /\ start[p] = "down" /\ count.starts < MaxStarts
  /\ \E e \in Entries :
       /\ file.entry # Wrong => e = file.entry
       /\ mem' = [mem EXCEPT ![p] = [file EXCEPT !.entry = e]]
  /\ start' = [start EXCEPT ![p] = IF file.entry = Wrong THEN "save" ELSE "ready"]
  /\ count' = [count EXCEPT !.starts = @ + 1,
       !.why = IF file.entry = Wrong /\ \E q \in Processes \ {p} : start[q] # "down"
                 THEN @ \cup {"raced"} ELSE @]
  /\ UNCHANGED <<file, live, update>>

\* Each known key is set in the file to what the memory says.
WriteBack(p) == file' = mem[p]

\* normalizeLoginPath: the path that was made up is written, or only logged.
SaveEntry(p) ==
  /\ start[p] = "save"
  /\ \/ WriteBack(p) /\ count' = count
     \/ file' = file /\ Trouble({"unsaved"})
  /\ start' = [start EXCEPT ![p] = "ready"]
  /\ UNCHANGED <<mem, live, update>>

Serve(p) ==
  /\ start[p] = "ready" /\ start' = [start EXCEPT ![p] = "up"]
  /\ live' = IF p = "panel" THEN mem[p] ELSE live
  /\ UNCHANGED <<file, mem, update, count>>

Stop(p) ==
  /\ start[p] # "down" /\ Trouble({})
  /\ start' = [start EXCEPT ![p] = "down"] /\ mem' = [mem EXCEPT ![p] = Off]
  /\ IF p = "panel"
       THEN live' = Off /\ update' = IF update = Off \/ update.at = "panel" THEN Off ELSE [update EXCEPT !.left = TRUE]
       ELSE live' = live /\ update' = IF update # Off /\ update.at = "agent" THEN [update EXCEPT !.at = "failed"] ELSE update
  /\ UNCHANGED file

-----------------------------------------------------------------------------
(* UpdateSecuritySettings: field by field into the panel's memory, until one *)
(* is refused; then the agent; then all of the memory becomes live.          *)

With(s, new) == [entry |-> IF new.entry = Off THEN s.entry ELSE new.entry,
                 limit |-> IF new.limit = Off THEN s.limit ELSE new.limit]

Update ==
  /\ Up("panel") /\ update = Off /\ count.changes < MaxChanges
  /\ \E e \in Entries \cup {Off}, l \in Limits \cup {Off} :
       LET new == [entry |-> e, limit |-> l]
       IN /\ <<e, l>> # <<Off, Off>>
          /\ mem' = [mem EXCEPT !["panel"] = With(@, new)]
          /\ update' = [new |-> new, at |-> "panel", left |-> FALSE]
  /\ count' = [count EXCEPT !.changes = @ + 1]
  /\ UNCHANGED <<file, start, live>>

\* A value of the limit that is refused leaves the path in the memory.
UpdateRefused ==
  /\ Up("panel") /\ update = Off /\ count.changes < MaxChanges
  /\ \E e \in Entries : e # mem["panel"].entry /\ mem' = [mem EXCEPT !["panel"].entry = e]
  /\ count' = [count EXCEPT !.changes = @ + 1, !.why = @ \cup {"refused"}]
  /\ UNCHANGED <<file, start, live, update>>

CallAgent ==
  /\ update # Off /\ update.at = "panel"
  /\ \/ Up("agent") /\ update' = [update EXCEPT !.at = "agent"] /\ count' = count
     \/ ~Up("agent") /\ update' = Off /\ count' = [count EXCEPT !.why = @ \cup {"failed"}]
  /\ UNCHANGED <<file, mem, start, live>>

\* handleConfigWriteBack: the fields into the agent's memory, and all of it
\* to the file.
WriteFieldsOnly ==
  /\ update # Off /\ update.at = "agent" /\ Up("agent")
  /\ file' = With(file, update.new) /\ mem' = mem
  /\ update' = IF update.left THEN Off ELSE [update EXCEPT !.at = "ok"]
  /\ UNCHANGED <<start, live, count>>

WriteFields ==
  /\ update # Off /\ update.at = "agent" /\ Up("agent")
  /\ mem' = [mem EXCEPT !["agent"] = With(@, update.new)]
  /\ file' = With(mem["agent"], update.new)
  /\ update' = IF update.left THEN Off ELSE [update EXCEPT !.at = "ok"]
  /\ count' = IF update.left /\ start["panel"] # "down"
                THEN [count EXCEPT !.why = @ \cup {"late"}] ELSE count
  /\ UNCHANGED <<start, live>>

WriteFails ==
  /\ update # Off /\ update.at = "agent" /\ Up("agent") /\ Trouble({"failed"})
  /\ mem' = [mem EXCEPT !["agent"] = With(@, update.new)]
  /\ update' = IF update.left THEN Off ELSE [update EXCEPT !.at = "failed"]
  /\ UNCHANGED <<file, start, live>>

\* ReloadSecurityConfig, with whatever the memory has by now.
GoLive ==
  /\ update # Off /\ update.at = "ok" /\ ~update.left
  /\ live' = mem["panel"] /\ update' = Off
  /\ UNCHANGED <<file, mem, start, count>>

\* An error, or an answer that nobody waits for: the memory stays changed.
UpdateFails ==
  /\ update # Off
  /\ \/ update.at = "failed" /\ count' = [count EXCEPT !.why = @ \cup {"failed"}]
     \/ update.at = "ok" /\ ~update.left /\ Trouble({"failed"})
     \/ update.at = "ok" /\ update.left /\ count' = count
  /\ update' = Off
  /\ UNCHANGED <<file, mem, start, live>>

-----------------------------------------------------------------------------
(* Others that write the file.                                               *)

\* persistConfig: after a detection, or when the include was installed.
Persist ==
  /\ Up("agent") /\ mem["agent"] # file
  /\ WriteBack("agent")
  /\ UNCHANGED <<mem, start, live, update, count>>

\* By hand; the processes read it when they are started again.
EditFile ==
  /\ count.changes < MaxChanges
  /\ \E e \in Entries \cup {Wrong} : e # file.entry /\ file' = [file EXCEPT !.entry = e]
  /\ count' = [count EXCEPT !.changes = @ + 1,
       !.why = IF \E p \in Processes : start[p] # "down" THEN @ \cup {"edited"} ELSE @]
  /\ UNCHANGED <<mem, start, live, update>>

PanelNext ==
  \/ \E p \in Processes : Load(p) \/ SaveEntry(p) \/ Serve(p) \/ Stop(p)
  \/ Update \/ UpdateRefused \/ CallAgent \/ WriteFields \/ WriteFails \/ GoLive \/ UpdateFails
  \/ Persist \/ EditFile

PanelSpec == PanelInit /\ [][PanelNext]_panelVars

-----------------------------------------------------------------------------
(* The path by which the panel lets in, and its limits, are those of the     *)
(* file, so that a restart keeps them: unless an update failed or was        *)
(* refused halfway, the path could not be saved, the two made one up at the  *)
(* same time, or the file was edited while one of them ran.                  *)
EntryIsOnFile ==
  Up("panel") /\ update = Off /\ count.why = {} => live = file
=============================================================================
