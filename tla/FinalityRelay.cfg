CONSTANTS
  Block <- MCBlock
  Genesis = "g"
  Parent <- MCParent
  Height <- MCHeight
  Chain <- MCChain
  Delegate <- MCDelegate
  MinerList <- MCMinerList
  d1 = d1
  d2 = d2
  d3 = d3
  NoBlock = NoBlock
  MaxForkHeight = 3
  LocalWindow = 2
  GlobalWindow = 3
  HeightSlack = 500
  Modulus = 65536
  Own = {d1}
  Invalid = {}
  Concurrent = FALSE
  CrashAllowed = FALSE
  MaxMessages = 3
SPECIFICATION Spec
SYMMETRY Symmetry
INVARIANT LocalFinOnChain
INVARIANT NoFinalReversed
INVARIANT VotesAreLocallyFinal
PROPERTY OnlyTipVotes
\* Blocks and votes may stop arriving.
CHECK_DEADLOCK FALSE
