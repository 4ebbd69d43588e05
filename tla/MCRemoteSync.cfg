CONSTANTS
  t1 = t1
  Tokens = {t1}
  p = p
  q = q
  Policies = {p, q}
  e = e
  Expiries = {e}
  s1 = s1
  Pushers = {s1}
  Main = Main
  Periodic = Periodic
  i = i
  j = j
  Ids = {i, j}
  None = None
  Second = 1
  MaxWrites = 1
  MaxTime = 1
  MaxFaults = 2

SPECIFICATION Spec

INVARIANTS
  RecordsAreVersions
  OnlyFaultsLeaveRegistrations
PROPERTIES
  Converges

CHECK_DEADLOCK FALSE
