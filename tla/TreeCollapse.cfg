SPECIFICATION TwmSpec
CONSTANTS
  None = None
  w1 = w1
  w2 = w2
  w3 = w3
  Window = {w1, w2, w3}
  Workspace = {x1}
  Category <- NoCategory
  Layouts <- OneLeaf
  Monocle <- MonocleLayout
  Command = {"reserve"}
  MaxNode = 5
  MaxChanged = 1
CHECK_DEADLOCK FALSE
INVARIANT
  NormalizeEnds
