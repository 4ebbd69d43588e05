CONSTANTS
  r1 = r1
  r2 = r2
  r3 = r3
  a = a
  b = b
  Requests = {r1, r2, r3}
  Models = {a, b}
  ModelOf <- AsksFor
  Prompt <- Prompts
  PolicyOf <- Resolved
  Outputs = {1}
  Codes = {200, 400, 503}
  RetryOn = {503}
  OK = 200

SPECIFICATION Spec

INVARIANTS
  TypeOK
  LedgerExplainsUsage
  RecordsAgree
  InputCap
  CallOrder
  TriesEverything
PROPERTIES
  KeepsBook
  AllAnswered

CHECK_DEADLOCK FALSE
