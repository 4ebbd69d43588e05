CONSTANTS
  s1 = s1
  s2 = s2
  Sessions = {s1, s2}
  a1 = a1
  a2 = a2
  Appenders = {a1, a2}
  Nil = Nil
  SizeOf <- MCSizeOf
  MaxSize = 2
  DayEnds = 1
  MaxTime = 2
  MaxFaults = 2

SPECIFICATION WriterSpec

INVARIANTS
  NothingLost
  SizeBound

CHECK_DEADLOCK FALSE
