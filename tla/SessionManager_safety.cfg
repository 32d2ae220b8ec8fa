SPECIFICATION MSpec
CONSTANTS
  Ids = {s1, s2, s3}
  Codes = {c1, c2}
  Prompts = {p1, p2}
  Contents = {hello}
  Replies = {world}
  SettingsInputs <- MCSettingsInputs
  None = None
  MaxSessions = 2
  PairTimeout = 1
  IdleTimeout = 1
  MaxHistory = 2
SYMMETRY Interchangeable
INVARIANTS
  TypeOK
  MapsAgree
  NothingSurvives
  ApprovalCarriesCredentials
  OnePromptPerSession
  HistoryIsWhatWasAsked
  CancelReachesOwnGeneration
  RepliesFollowQuestions
PROPERTIES
  DestroyEndsGeneration
  ApprovalIsFinal
  ImplementsLifecycle
