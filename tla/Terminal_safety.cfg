SPECIFICATION TSpec
CONSTANTS
  Ids = {s1}
  Codes = {c1}
  Prompts = {p1, p2}
  Approvers = {a1}
  Contents = {hello}
  Replies = {world}
  ApproveRequests <- TwoRequests
  ConfiguredModel <- Flash
  SettingsInputs <- TwoSettings
  None = None
  MaxSessions = 1
  PairTimeout = 1
  IdleTimeout = 1
  MaxHistory = 1
  Second = 2
SYMMETRY Interchangeable
INVARIANTS
  TTypeOK
  PairingOverWhenGivenUp
  ReadyAfterAnswer
  ShowsWhatRuns
