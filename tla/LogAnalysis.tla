------------------------------ MODULE LogAnalysis ------------------------------
(* The access log of a site: nginx writes it, the agent cuts it              *)
(* (internal/agent/log_rotation.go) and reads it for the analysis            *)
(* (internal/agent/access_analysis_handler.go), and the panel adds what was   *)
(* read to its tables together with the cursor up to where it was read       *)
(* (internal/accessanalysis).  A line is its number and its day; a file is    *)
(* its inode and its lines.                                                   *)
EXTENDS Naturals, Sequences, FiniteSets

CONSTANTS
  MaxWritten,    \* bound: lines of the log
  MaxDays,       \* bound: days
  Inodes,        \* inodes that files of the log can have
  Scanners,      \* a request of the browser, a scheduled task
  MaxScans,      \* bound: scans
  MaxCuts,       \* bound: rotations
  MaxBreaks,     \* bound: failures and crashes
  KeepRotated,   \* max_count of the rotation
  Nil

ASSUME LogAssumption ==
  /\ KeepRotated \in Nat \ {0} /\ MaxWritten \in Nat
  /\ Inodes \subseteq Nat /\ Nil \notin Inodes /\ Nil \notin Scanners

VARIABLES
  today,         \* the day
  day,           \* the day each line was written, 0 if it is not yet
  content,       \* the lines of each file
  active,        \* the file that has the log's name
  rotated,       \* the files that were renamed
  handle,        \* the file that nginx writes to
  cut,           \* how far the rotation is
  cursor,        \* access_analysis_cursors
  jobs,          \* the rows of access_analysis_jobs that are running
  running,       \* Service.running: the scanner that was admitted
  scan,          \* what each scanner is doing
  counted,       \* how often each line is in the tables
  tally          \* what the bounds count; history: what was passed over or read again

logVars == <<today, day, content, active, rotated, handle, cut, cursor, jobs, running, scan,
             counted, tally>>
logFiles == <<today, day, content, active, rotated, handle, cut>>
logTables == <<cursor, jobs, counted>>

Written == 1..MaxWritten

LogInit ==
  /\ today = 1 /\ day = [l \in Written |-> 0]
  /\ content = [i \in Inodes |-> << >>]
  /\ \E i \in Inodes : active = i /\ handle = i /\ \A j \in Inodes : i <= j
  /\ rotated = {} /\ cut = "no"
  /\ cursor = [inode |-> Nil, offset |-> 0, size |-> 0]
  /\ jobs = {} /\ running = Nil
  /\ scan = [s \in Scanners |-> Nil]
  /\ counted = [l \in Written |-> 0]
  /\ tally = [scans |-> 0, cuts |-> 0, breaks |-> 0, passed |-> {}, again |-> FALSE]

Break == tally.breaks < MaxBreaks /\ tally' = [tally EXCEPT !.breaks = @ + 1]

-----------------------------------------------------------------------------
(* nginx and the rotation.                                                   *)

WriteLine(l) ==
  /\ \A k \in Written : day[k] = 0 <=> k >= l
  /\ day' = [day EXCEPT ![l] = today]
  /\ content' = [content EXCEPT ![handle] = Append(@, l)]
  /\ UNCHANGED <<today, active, rotated, handle, cut, logTables, running, scan, tally>>

NextDay ==
  /\ today < MaxDays /\ today' = today + 1
  /\ UNCHANGED <<day, content, active, rotated, handle, cut, logTables, running, scan, tally>>

\* rotateLogs: a file with something in it is renamed, and then nginx is told.
\* A cut that finds nothing to rename does not tell it.
Rename ==
  /\ cut = "no" /\ tally.cuts < MaxCuts /\ active # Nil /\ content[active] # << >>
  /\ rotated' = rotated \cup {active} /\ active' = Nil /\ cut' = "renamed"
  /\ tally' = [tally EXCEPT !.cuts = @ + 1]
  /\ UNCHANGED <<today, day, content, handle, logTables, running, scan>>

\* The file that is made may have the inode of one that was removed, which
\* the cursor may still name.
Reopen ==
  /\ cut = "renamed"
  /\ \E i \in Inodes :
       /\ i \notin rotated /\ content' = [content EXCEPT ![i] = << >>]
       /\ active' = i /\ handle' = i
       /\ tally' = [tally EXCEPT !.again = @ \/ cursor.inode = i \/ \E s \in Scanners :
                      scan[s] # Nil /\ scan[s].cursor.inode = i]
  /\ cut' = "cleanup"
  /\ UNCHANGED <<today, day, rotated, logTables, running, scan>>

ReopenFails ==
  /\ cut = "renamed" /\ Break /\ cut' = "cleanup"
  /\ UNCHANGED <<today, day, content, active, rotated, handle, logTables, running, scan>>

\* cleanupRotatedLogs: beyond the newest, those that are old enough.
Newer(i) == {j \in rotated : content[j][1] > content[i][1]}

Cleanup ==
  /\ cut = "cleanup" /\ cut' = "no"
  /\ rotated' = {i \in rotated : Cardinality(Newer(i)) < KeepRotated
                   \/ day[content[i][Len(content[i])]] = today}
  /\ UNCHANGED <<today, day, content, active, handle, logTables, running, scan, tally>>

-----------------------------------------------------------------------------
(* A scan of the panel.                                                      *)

ScanAt(s, pc) == scan[s] # Nil /\ scan[s].pc = pc
Step(s, pc) == scan' = [scan EXCEPT ![s].pc = pc]

\* admitScan, under admissionMu: not beside another of this process, nor while
\* a row of the last ten minutes says that one runs.
Fresh == {j \in jobs : ~j.stale}

BeginScan(s) ==
  /\ scan[s] = Nil /\ tally.scans < MaxScans
  /\ tally' = [tally EXCEPT !.scans = @ + 1]
  /\ scan' = [scan EXCEPT ![s] =
       [pc |-> "create", job |-> tally.scans, cursor |-> cursor, range |-> {}, rotated |-> FALSE,
        lines |-> << >>, older |-> {}]]

(* Wrong: only the table is looked at, where the row is not there yet or     *)
(* seems too old.                                                            *)
AdmitByTable(s) ==
  /\ Fresh = {} /\ jobs' = {}
  /\ BeginScan(s) /\ running' = s
  /\ UNCHANGED <<logFiles, cursor, counted>>

Admit(s) ==
  /\ running = Nil
  /\ Fresh = {} /\ jobs' = {}
  /\ BeginScan(s) /\ running' = s
  /\ UNCHANGED <<logFiles, cursor, counted>>

\* The row, and the days that the request asks for.
CreateJob(s) ==
  /\ ScanAt(s, "create")
  /\ \E range \in {{today}, {today - 1}, 1..today}, r \in BOOLEAN :
       scan' = [scan EXCEPT ![s].pc = "cursor", ![s].range = range, ![s].rotated = r]
  /\ jobs' = jobs \cup {[id |-> scan[s].job, stale |-> FALSE]}
  /\ UNCHANGED <<logFiles, cursor, counted, running, tally>>

GetCursor(s) ==
  /\ ScanAt(s, "cursor")
  /\ scan' = [scan EXCEPT ![s].pc = "read", ![s].cursor = cursor]
  /\ UNCHANGED <<logFiles, logTables, running, tally>>

(* scanAccessLogFile: where the cursor says, if it is of this file.          *)
StartOf(c, i) ==
  IF c.inode # i \/ c.size > Len(content[i]) \/ c.offset > Len(content[i]) THEN 0 ELSE c.offset

LinesOf(files) == UNION {{content[i][k] : k \in 1..Len(content[i])} : i \in files}

\* Up to the end of the file or of the budget; the rotated files after it,
\* from their beginnings, when nothing was cut off.
ReadLog(s) ==
  /\ ScanAt(s, "read")
  /\ IF active = Nil
       THEN scan' = [scan EXCEPT ![s].pc = "save"]
       ELSE LET c     == scan[s].cursor
                size  == Len(content[active])
                start == StartOf(c, active)
            IN \E end \in start..size :
                 scan' = [scan EXCEPT ![s].pc = "save",
                   ![s].cursor = [inode |-> active, offset |-> end, size |-> size],
                   ![s].lines = SubSeq(content[active], start + 1, end),
                   ![s].older = IF scan[s].rotated /\ end = size THEN LinesOf(rotated) ELSE {}]
  /\ UNCHANGED <<logFiles, logTables, running, tally>>

InRange(s, l) == day[l] \in scan[s].range
Lines(s) == {scan[s].lines[k] : k \in 1..Len(scan[s].lines)}

\* SaveScanResult: the tables, the job and the cursor in one transaction.
Added(s) ==
  counted' = [l \in Written |->
    IF counted[l] < 2 /\ l \in Lines(s) \cup scan[s].older /\ InRange(s, l) THEN counted[l] + 1
    ELSE counted[l]]

Save(s) ==
  /\ ScanAt(s, "save") /\ \E j \in jobs : j.id = scan[s].job
  /\ Added(s)
  /\ jobs' = {j \in jobs : j.id # scan[s].job}
  /\ cursor' = scan[s].cursor
  /\ tally' = [tally EXCEPT
       !.passed = @ \cup {l \in Lines(s) : ~InRange(s, l)},
       !.again = @ \/ scan[s].older # {}]
  /\ Step(s, "release")
  /\ UNCHANGED <<logFiles, running>>

\* Wherever it fails: FinishJobFailed, which may fail too.
Fail(s) ==
  /\ scan[s] # Nil /\ scan[s].pc # "release"
  /\ Break
  /\ jobs' \in {jobs, {j \in jobs : j.id # scan[s].job}}
  /\ Step(s, "release")
  /\ UNCHANGED <<logFiles, cursor, counted, running>>

Release(s) ==
  /\ ScanAt(s, "release")
  /\ scan' = [scan EXCEPT ![s] = Nil] /\ running' = Nil
  /\ UNCHANGED <<logFiles, logTables, tally>>

\* Ten minutes go by: only rows without a scan in this process can be that old
\* and matter.
Age ==
  /\ \E j \in jobs : ~j.stale
  /\ jobs' = {[j EXCEPT !.stale = TRUE] : j \in jobs}
  /\ UNCHANGED <<logFiles, cursor, counted, running, scan, tally>>

\* The panel ends and starts again: RecoverStaleJobs.
Restart ==
  /\ Break
  /\ scan' = [s \in Scanners |-> Nil] /\ running' = Nil
  /\ jobs' = Fresh
  /\ UNCHANGED <<logFiles, cursor, counted>>

LogNext ==
  \/ \E l \in Written : WriteLine(l)
  \/ NextDay \/ Rename \/ Reopen \/ ReopenFails \/ Cleanup
  \/ \E s \in Scanners : Admit(s) \/ CreateJob(s) \/ GetCursor(s) \/ ReadLog(s) \/ Save(s)
                         \/ Fail(s) \/ Release(s)
  \/ Age \/ Restart

LogSpec == LogInit /\ [][LogNext]_logVars

-----------------------------------------------------------------------------
(* No line is counted twice, and every line before the cursor was counted    *)
(* unless a scan of other days passed over it: whatever fails, restarts or   *)
(* runs beside it.  Unless the rotated files were read too, which begins     *)
(* with their first line each time, or an inode came back.                   *)
CountedOnce ==
  ~tally.again =>
    /\ \A l \in Written : counted[l] <= 1
    /\ cursor.inode \in rotated \cup {active} =>
         \A k \in 1..cursor.offset :
           content[cursor.inode][k] \in tally.passed \/ counted[content[cursor.inode][k]] = 1
=============================================================================
