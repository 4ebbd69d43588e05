CONSTANTS
  t1 = t1
  t2 = t2
  r1 = r1
  r2 = r2
  m1 = m1
  m2 = m2
  n1 = n1
  n2 = n2
  secret = secret
  insult = insult
  None = None
  NoFile = NoFile
  EventLedger = TRUE
  HalfWritten = HalfWritten
  NotText = NotText
  Tokens = {t1, t2}
  Requests = {r1, r2}
  Models = {m1, m2}
  Providers = {n1, n2}
  Subjects = {secret, insult}
  KindOf <- MCKindOf
  TokenOf <- MCTokenOf
  ModelOf <- MCModelOf
  MessagesOf <- MCMessagesOf
  ServerOf <- MCServerOf
  PromptOf <- MCPromptOf
  UsageOf <- MCUsageOf
  PolicyText <- MCPolicyText
  TextsOf <- MCTextsOf
  Configured = {"http", "https"}
  ProviderConfig <- MCProviderConfig
  StatsKeys <- MCStatsKeys
  Display <- MCDisplay
  DefaultProvider = n2
  GlobalUpstream = "u0"
  Failing = {"http"}
  KeysSet = {"k0", "k1"}
  URLs = {"u0", "u1", "v1"}

SPECIFICATION Spec

INVARIANTS
  
  SessionFileWhole

PROPERTIES
  ReportsAgree
  ShutdownEnds

CHECK_DEADLOCK FALSE
