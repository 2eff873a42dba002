SPECIFICATION HostSpec
CONSTANTS
  MaxBackups = 2
  MaxWorkers = 2
  MaxTasks = 2
  JobSlots = 2
  Retention = 1
  MaxEdits = 1
  MaxFaults = 1
  MaxJobs = 3
  Made = {"full"}
  Chosen = {{}}
  NoBackup = NoBackup
  Pools = {u}
  Sites = {s1, s2}
  SslSites = {s1}
  MaxVersion = 2
  MaxOps = 3
  MaxOpFaults = 2
  None = None
  Entries = {1, 2}
  Limits = {1, 2}
  Wrong = 0
  Off = Off
  MaxChanges = 2
  MaxStarts = 4
  MaxTroubles = 2
  MaxWritten = 3
  MaxDays = 2
  Inodes = {1, 2, 3}
  Scanners = {"browser", "task"}
  MaxScans = 2
  MaxCuts = 2
  MaxBreaks = 1
  KeepRotated = 1
  Nil = Nil
  Names = {1, 2}
  Half = Half
  Nobody = Nobody
  MaxRequests = 3
  MaxMishaps = 2
  GeoSites = {g1, g2}
  AllSites = AllSites
  Quiet = Quiet
  MaxRules = 1
  MaxGeoOps = 3
  MaxGeoFaults = 2
  Rules = {r1, r2}
  Extensions = {1, 2}
  Editors = {e1, e2}
  Absent = Absent
  MaxIncludeOps = 2
  MaxIncludeFaults = 1
INVARIANTS
  SuccessHasArchive
  EveryFileLoads
  SyncedIsTrue
  EntryIsOnFile
  CountedOnce
  AnswersHold
  GeoRowsAreServed
  IncludesFollowRows
PROPERTY FollowersLearnTheEnd
CHECK_DEADLOCK FALSE
