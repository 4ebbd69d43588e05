CONSTANTS
  r1 = r1
  r2 = r2
  r3 = r3
  r4 = r4
  t1 = t1
  Requests = {r1, r2, r3}
  Tokens = {t1}
  TokenOf <- OneToken
  Configs <- ParallelConfigs
  Counts = {2}
  StaleAfter = 4
  GCInterval = 1
  MaxStall = 1
  MaxFlight = 2
  MaxTime = 5

SPECIFICATION Spec

INVARIANT MaxParallelHolds

CHECK_DEADLOCK FALSE
