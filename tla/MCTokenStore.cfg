SPECIFICATION Spec
CONSTANTS
  t1 = t1
  t2 = t2
  p1 = p1
  p2 = p2
  w1 = w1
  w2 = w2
  l1 = l1
  Tokens <- MCTokens
  Policies <- MCPolicies
  Expiries <- MCExpiries
  Writers <- MCOneWriter
  Readers <- MCReaders
  Watcher = Watcher
  None = None
  MaxWrites = 2
  MaxTime = 1
INVARIANTS TypeOK CacheIsAVersion
PROPERTIES EvictsOnlyExpired CacheCatchesUp
CHECK_DEADLOCK FALSE
