SPECIFICATION Spec
CONSTANTS
  Feeder = {"d1"}
  Price = {1, 3}
  Window = {2}
  InitialWindow = 2
  CrashAllowed = TRUE
  MaxHeight = 4
INVARIANT ValidBlocksConnected
