SPECIFICATION Spec
CONSTANTS
  Monitor = {m1}
  Window = {w1}
  WorkspaceId <- Ids2
  Caller = {c1}
  None = None
  Stored <- TwoSaved
  Env = {"unminimize", "show", "hide", "close"}
  MaxHook = 1
  MaxApps = 1
CHECK_DEADLOCK FALSE
INVARIANTS
  TypeOK
  NoGhostWindows
PROPERTIES
  UntrackedOnlyByRemoval
  ImplementsAssignment
