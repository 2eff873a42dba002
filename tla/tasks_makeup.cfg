SPECIFICATION Spec
CONSTANTS
  t1 = t1
  t2 = t2
  d1 = d1
  d2 = d2
  m1 = m1
  Schedules = {"clock"}
  Policies = {"run_once"}
  Null = Null
  Deleted = Deleted
  Tasks = {t1}
  DispatchWorkers = {d1}
  ManualWorkers = {}
  Period = 2
  Lease = 2
  MaxTime = 5
  MaxRuns = 2
  MaxConcurrent = 2
  DispatchQueueSize = 1
  ManualQueueSize = 0
  MaxBoots = 1
  MaxEdits = 1
  MaxFaults = 0
INVARIANTS
  OncePerFiring
CHECK_DEADLOCK FALSE
