SPECIFICATION Spec
CONSTANTS
  c1 = c1
  c2 = c2
  l1 = l1
  l2 = l2
  v1 = v1
  v2 = v2
  bad = bad
  Absent = Absent
  Null = Null
  Confs = {c1, c2}
  Links = {l1}
  Texts = {v1, v2, bad}
  Broken = {bad}
  Available = {c1}
  CertPatches <- SitePatches
  Requests <- SiteRequests
  MaxRequests = 3
  MaxReloads = 1
  MaxFaults = 1
INVARIANTS
  RestingNginxServesDisk
PROPERTIES
  AllOrNothing
  MaintenanceHolds
  ConfirmedIsLive
CHECK_DEADLOCK FALSE
