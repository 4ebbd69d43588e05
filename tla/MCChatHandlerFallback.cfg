CONSTANTS
  r1 = r1
  r2 = r2
  r3 = r3
  a = a
  b = b
  Requests = {r1}
  Models = {a, b}
  ModelOf <- AsksFor
  Prompt <- Prompts
  PolicyOf <- FallbackOnly
  Outputs = {1}
  Codes = {200, 400, 503}
  RetryOn = {503}
  OK = 200

SPECIFICATION Spec

INVARIANT FallbacksTried

CHECK_DEADLOCK FALSE
