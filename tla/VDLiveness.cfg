SPECIFICATION FairSpec
CONSTANTS
  Monitor = {m1}
  Window = {w1}
  WorkspaceId <- Ids3
  Caller = {c1}
  None = None
  Stored <- TwoSaved
  Env = {"unminimize", "hide"}
  MaxHook = 1
  MaxApps = 1
CHECK_DEADLOCK FALSE
PROPERTIES
  StraysResolved
  GhostsCleared
