SPECIFICATION FairSpec
CONSTANTS
  Window = {w1, w2}
  Passing = {w1}
  MaxEvents = 2
  MaxMoves = 1
CHECK_DEADLOCK FALSE
INVARIANTS
  TypeOK
  MovesKept
  HeldAreWatched
PROPERTIES
  LiveWindowsKept
  GhostsReaped
  MovesSettle
