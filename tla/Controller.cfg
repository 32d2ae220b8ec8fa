SPECIFICATION CSpec
CONSTANTS
  Ids = {s1, s2}
  Codes <- MCCodes
  Prompts = {}
  Approvers = {a1}
  Contents = {hello}
  Replies = {}
  ApproveRequests <- MCRequests
  ConfiguredModel <- Flash
  SettingsInputs <- MCSettings
  None = None
  MaxSessions = 1
  PairTimeout = 1
  IdleTimeout = 1
  MaxHistory = 0
  Tasks = {t1, t2}
  Typed <- MCTyped
  Selections <- MCSelections
SYMMETRY Interchangeable
INVARIANTS
  CTypeOK
  OneApprovalAtATime
  AppControlsWhatItApproved
  ShownCodesAreFound
  ApproveReplyHasToken
