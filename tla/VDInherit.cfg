SPECIFICATION Spec
CONSTANTS
  Monitor = {m1}
  Window = {w1}
  WorkspaceId <- Ids4
  Caller = {c1}
  None = None
  Stored <- TwoSavedPinned
  Env = {"minimize", "unminimize"}
  MaxHook = 1
  MaxApps = 1
CHECK_DEADLOCK FALSE
INVARIANTS
  OneHome
  NoStrayWindows
  HiddenAreMarked
  GridsWellFormed
