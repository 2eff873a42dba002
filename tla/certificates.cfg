SPECIFICATION Spec
CONSTANTS
  Sites = {s1, s2}
  Marked = {s1}
  Certs = {c1}
  Outside = {x1}
  MaxEntries = 5
  MaxOrders = 2
  MaxRequests = 3
  MaxFaults = 1
  JobSlots = 2
  MaxSweeps = 1
  Null = Null
  Absent = Absent
  Gone = Gone
CONSTRAINT OneTrouble
INVARIANTS
  ServedFilesExist
  RowIsServed
  WorkedOnOrSettled
PROPERTIES
  RenewalSurvives
  JobsEnd
CHECK_DEADLOCK FALSE
