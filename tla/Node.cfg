SPECIFICATION NodeSpec
CONSTANTS
  Tx = {"a","b"}
  ValidHeight <- MCValidHeight
  TxCacheHeight = 2
  CrashAllowed = FALSE
  MaxHeight = 5
  MaxBlockTx = 1
  Key = {"a", "c"}
  Value = {"v"}
  Empty = "empty"
  Absent = "absent"
  Block <- DiskBlock
  Genesis = "g"
  Parent <- DiskParent
  Height <- DiskHeight
  Chain <- DiskChain
  FlushOrder <- Flushes
  BlockDb = "block"
  Corrupt = "corrupt"
  Peer = {"p1", "p2"}
  Hash = {"b1", "b2"}
  Honest = {}
  MaxInTransit = 1
  RaceAllowed = FALSE
  Nobody = "nobody"
INVARIANTS NoReplay CacheCoversWindow CacheOnChain PoolUnconfirmed
PROPERTIES RestartedCacheRestored ImplementsStore
INVARIANTS UndoLeadsBack ForksAreJudgedRight RestartIsConsistent QueuesAgree RaceIsConfined
\* ForkCache: blocks and commands may stop arriving.
CHECK_DEADLOCK FALSE
