SPECIFICATION Spec
CONSTANTS
  c1 = c1
  c2 = c2
  l1 = l1
  l2 = l2
  v1 = v1
  v2 = v2
  bad = bad
  Absent = Absent
  Null = Null
  Confs = {c1, c2}
  Links = {l1, l2}
  Texts = {v1, v2, bad}
  Broken = {bad}
  Available = {c1, c2}
  CertPatches <- SitePatches
  Requests <- EditRequests
  MaxRequests = 2
  MaxReloads = 0
  MaxFaults = 0
PROPERTIES
  RollbackRestoresFiles
CHECK_DEADLOCK FALSE
