SPECIFICATION Spec
CONSTANTS
  Request = {r1, r2}
  Hider = {h1, h2}
  MaxRetries = 2
  Attempts = 2
  MaxShowing = 1
SYMMETRY Symmetry
CHECK_DEADLOCK FALSE
INVARIANTS
  HiddenIsOurs
  LastRequestWins
