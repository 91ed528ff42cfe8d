CONSTANTS
  Draw <- Draws
  ListAt <- NewLists
  Mine = {"a"}
  Interval = 2
  Patience = 4
  Continuous = 2
  MaxTime = 9
  Account = {1, 2, 3}
  Voter = {1, 2}
  Registered = {1, 2}
  Coins = 2
  V2 = 3
  V3 = 4
  V35 = 12
  CountInterval = 2
  Delay = 2
  BpsSize = 2
  NewBpsSize = {1, 2}
  MinVotes = {0, 2}
  MaxOps = 1
  MaxVoteCandidateNum = 2
  MaxTxs = 2
  MaxHeight = 18
  Tx <- PackedTx
  Median = "median"
  Settle = "settle"
  Priority <- PackedPriority
  FeePerKb <- PackedFees
  Size <- PackedSize
  Fuel <- PackedFuel
  Needs <- PackedNeeds
  Hashes <- PackedHashes
  MaxSize = 7
  MaxFuel = 5
  TimeLimit = TRUE
SPECIFICATION ProductionSpec
INVARIANTS VotesAgree ListsAreFresh TurnsAreKept PackedBlocksStand
PROPERTIES ElectionsSeeVotes ProducersGoOn
\* Delegates: the chain ends at MaxHeight.
CHECK_DEADLOCK FALSE
