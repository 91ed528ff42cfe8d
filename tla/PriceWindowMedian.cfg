SPECIFICATION Spec
CONSTANTS
  Feeder = {"d1"}
  Price = {1, 3}
  Window = {1, 2, 3}
  InitialWindow = 2
  CrashAllowed = TRUE
  MaxHeight = 5
INVARIANT PricesOnChain
INVARIANT WindowComplete
PROPERTY RejectsOnlyAfterGap
