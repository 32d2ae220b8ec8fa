SPECIFICATION PSpec
CONSTANTS
  Ids = {s1, s2}
  Codes = {c1}
  Prompts = {p1}
  Contents = {hello}
  Replies = {}
  SettingsInputs <- MCSettings
  None = None
  MaxSessions <- MCMax
  PairTimeout <- MCPair
  IdleTimeout <- MCIdle
  MaxHistory = 1
  Limit = 2
  Window = 2
  Creators = {k1, k2}
  EnvNumbers <- MCNumbers
  EnvTexts <- MCTexts
  DrainTime = 1
INVARIANTS
  PTypeOK
PROPERTIES
  NoBurst
  RefusedOnlyWhenFull
  LifecycleAcrossRestarts
  ShutdownEnds
  UnusedSessionsAreReclaimed
