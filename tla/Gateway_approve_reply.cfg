SPECIFICATION GSpec
CONSTANTS
  Ids = {s1}
  Codes = {c1}
  Prompts = {p1, p2}
  Approvers = {a1}
  Contents = {hello}
  Replies = {world}
  ApproveRequests <- OneRequest
  ConfiguredModel <- Flash
  SettingsInputs <- OneSettings
  None = None
  MaxSessions = 1
  PairTimeout = 1
  IdleTimeout = 1
  MaxHistory = 3
INVARIANTS
  ApproveReplySaysApproved
