SPECIFICATION Spec
CONSTANTS
  SiteIds = {s1, s2}
  Domains = {d1, d2}
  Foreign = {f1}
  Texts = {t1}
  Certs = {c1, c2}
  Htmls = {h1, h2}
  Null = Null
  Absent = Absent
  MaxRequests = 5
  MaxJobs = 1
  MaxFaults = 1
INVARIANTS
  MaintenanceIsKnown
  SyncedIsInstalled
  MaintenanceIsServed
  PendingCanBeReconciled
PROPERTIES
  TakenOverAfterRename
SYMMETRY Alike
CHECK_DEADLOCK FALSE
