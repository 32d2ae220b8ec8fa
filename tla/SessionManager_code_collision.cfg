SPECIFICATION MSpec
CONSTANTS
  Ids = {s1, s2}
  Codes = {c1, c2}
  Prompts = {p1, p2}
  Contents = {hello}
  Replies = {world}
  SettingsInputs <- MCSettingsInputs
  None = None
  MaxSessions = 2
  PairTimeout = 1
  IdleTimeout = 1
  MaxHistory = 3
INVARIANTS
  WaitingSessionsOwnTheirCode
