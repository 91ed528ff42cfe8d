CONSTANTS
  p1 = p1
  p2 = p2
  p3 = p3
  Account <- Trader
  Fcoin = "f"
  Dex0Owner = "o"
  Bp = "o"
  Delegates <- Topmost
  MaxDexId = 2
  OperatorFee = 0
  RiskFeeRatio = 0
  RatioBoost = 4
  DefaultTerms <- TakerPays
  Registrations <- CrossRegistrations
  Changes <- CrossChanges
  InitialFree <- TraderFree
  FrictionRatio = 0
  TransferRatio = 1
  PriceBoost = 2
  Offers <- CrossOffers
  DealPrices = {2, 3}
  DealCoins = {1, 3, 4}
  DealAssets = {1, 2, 3}
  Transfers = {}
  MaxOrders = 3
  RegId <- Governing
  ProposalId = {p1, p2, p3}
  Genesis = "g"
  Gateway = "gw"
  StoredGovernors <- NoneOrThree
  Switch = {"swap", "feed"}
  Elections <- Chosen
  Inputs <- SwapInputs
  FeeRatio = 400
  ExpireBlocks = 1
  MaxSupply = 30
  InitialRatios <- Defaults
  MaxHeight = 1
  User <- Borrowers
  CdpId = {1, 2, 3}
  PairOrder <- Pairs
  R3 = FALSE
  Floor = 80
  Start = 190
  LiquidateRatio = 150
  NonReturn = 113
  ForceRatio = 104
  Discount = 97
  Ceiling = 50
  MinStake = 60
  Rate = 20
  Cycle = 1
  SettleLimit = 2
  ForceLimit = 2
  PenaltyMin = 4
  Holdings <- Holds
  Purse <- Purses
  InitialReserve = 270
  Prices = {}
  Stakes = {}
  Mints = {}
  Repays = {}
  Bids = {}
  LastHeight = 2
SPECIFICATION MoneySpec
SYMMETRY Symmetry
INVARIANTS PositionsAreBacked ProposalsActRight FrozenBacksOrders ExchangeBalances
PROPERTY LiquidationsInOrder
\* Orders, proposals and heights are bounded; at the last height no price may be left.
CHECK_DEADLOCK FALSE
