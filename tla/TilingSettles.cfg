SPECIFICATION FairSpec
CONSTANTS
  None = None
  w1 = w1
  w2 = w2
  w3 = w3
  Window = {w1, w2}
  Workspace = {x1, x2}
  Category <- TwoAlike
  Layouts <- ConditionalOrOverflow
  Monocle <- MonocleLayout
  Command = {"switch", "send", "cycle", "float", "tab", "monocle"}
  Caller = {c1}
  Env = {"open", "minimize"}
  MaxNode = 5
  MaxChanged = 2
  MaxQueue = 1
CHECK_DEADLOCK FALSE
PROPERTY
  Settles
