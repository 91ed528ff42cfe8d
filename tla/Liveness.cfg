CONSTANTS
  Block <- MCBlock
  Genesis = "g"
  Parent <- MCParent
  Height <- MCHeight
  Chain <- MCChain
  Delegate <- MCSole
  MinerList <- MCSoleMiner
  d1 = d1
  d2 = d2
  d3 = d3
  NoBlock = NoBlock
  MaxForkHeight = 3
  LocalWindow = 2
  GlobalWindow = 3
  HeightSlack = 500
  Modulus = 65536
  Own = {}
  Invalid = {"a2", "b3"}
  Concurrent = FALSE
  CrashAllowed = FALSE
  MaxMessages = 2
SPECIFICATION LiveSpec
PROPERTIES ActivationEnds EveryBlockArrives DueIsSettled EveryTxIsPacked
INVARIANT WaitingIsBounded
\* FinalityNode, Orphans: blocks and votes may stop arriving.
CHECK_DEADLOCK FALSE
