SPECIFICATION FairSpec
CONSTANTS
  MaxCrashes = 2
  MaxLaunches = 2
INVARIANTS
  QuitIsFinal
  FailuresInARow
PROPERTIES
  AppComesBack
  ExitEnds
