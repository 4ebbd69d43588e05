SPECIFICATION Spec
CONSTANTS
  c1 = c1
  c2 = c2
  p1 = p1
  p2 = p2
  Clients = {c1, c2}
  Procs = {p1, p2}
  Main = Main
  Nobody = Nobody
  None = None
  Events <- MCEvents
  Wanted <- MCWanted
  QueueSize = 1
  Attempts = 3
  MaxRestarts = 1
INVARIANTS TypeOK NothingStranded ClosedOnce MapMatchesDatabase
PROPERTIES KeepsChannel OperationsEnd
CHECK_DEADLOCK FALSE
