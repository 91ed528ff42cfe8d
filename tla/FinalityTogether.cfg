CONSTANTS
  Block <- MCBlock
  Genesis = "g"
  Parent <- MCParent
  Height <- MCHeight
  Chain <- MCChain
  Delegate <- MCDelegate
  Node <- MCDelegate
  MinerList <- MCMinerList
  d1 = d1
  d2 = d2
  d3 = d3
  NoBlock = NoBlock
  MaxForkHeight = 3
  LocalWindow = 2
  GlobalWindow = 3
  HeightSlack = 500
  Modulus = 65536
  Own = {}
  Invalid = {}
  Concurrent = TRUE
  CrashAllowed = FALSE
  MaxMessages = 4
SPECIFICATION TogetherSpec
SYMMETRY Symmetry
INVARIANT GlobalFinBacked
INVARIANT Agreement
\* Blocks and votes may stop arriving.
CHECK_DEADLOCK FALSE
