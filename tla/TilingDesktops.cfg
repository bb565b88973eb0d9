SPECIFICATION Spec
CONSTANTS
  None = None
  w1 = w1
  w2 = w2
  w3 = w3
  Window = {w1, w2}
  Workspace = {x1, x2}
  Category <- TwoAlike
  Layouts <- ConditionalOrOverflow
  Monocle <- MonocleLayout
  Command = {"switch", "sendAny", "destroy", "cycle", "float", "monocle",
             "settings", "tab"}
  Caller = {c1}
  Env = {"open", "minimize", "unminimize"}
  MaxNode = 5
  MaxChanged = 1
  MaxQueue = 1
CHECK_DEADLOCK FALSE
SYMMETRY DesktopSymmetry
INVARIANTS
  TypeOK
  
  
  
