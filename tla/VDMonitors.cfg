SPECIFICATION Spec
CONSTANTS
  Monitor = {m1, m2}
  Window = {w1}
  WorkspaceId = {x1, x2, x3}
  Caller = {c1, c2}
  None = None
  Stored <- NothingSaved
  Env = {"connect", "disconnect", "move"}
  MaxHook = 1
  MaxApps = 1
SYMMETRY Symmetry
CHECK_DEADLOCK FALSE
INVARIANTS
  HomesIndexed
  WorkspaceIndexSound
  SwitchesCounted
  NoStrayWindows
PROPERTIES
  MonitorChangedOnlyBySending
