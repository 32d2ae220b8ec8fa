SPECIFICATION TFairSpec
CONSTANTS
  Ids = {s1}
  Codes = {c1}
  Prompts = {p1}
  Approvers = {a1}
  Contents = {hello}
  Replies = {}
  ApproveRequests <- OneRequest
  ConfiguredModel <- Flash
  SettingsInputs <- OneSettings
  None = None
  MaxSessions = 1
  PairTimeout = 1
  IdleTimeout = 1
  MaxHistory = 1
  Second = 2
PROPERTIES
  QuitReturns
  NothingLeftBehind
