CONSTANTS
  r1 = r1
  r2 = r2
  r3 = r3
  r4 = r4
  r5 = r5
  p1 = p1
  p2 = p2
  Nobody = Nobody
  Proxies = {p1, p2}
  Requests = {r1, r2, r3, r4, r5}
  ProxyOf <- Placement
  Prompt <- Prompts
  LimitOf <- Limits
  Outputs = {1}
  MaxSends = 2
  MaxFaults = 1

SPECIFICATION Spec

INVARIANTS
  TypeOK
  UsageIsOwed
  InputsCovered
  InputCap
PROPERTIES
  KeepsBook
  AllSettle

CHECK_DEADLOCK FALSE
