SPECIFICATION Spec
CONSTANTS
  Threads = {t1, t2}
  Codes = {c1, c2}
  Steps = {p1, p2}
  MaxSessions = 1
  MaxTokens = 2
  MaxAttempts = 2
  Null = Null
  MaxOps = 7
SYMMETRY Symmetry
CHECK_DEADLOCK FALSE
INVARIANTS UsedOnce CountsAgree SessionCap NoSessionFromBefore
