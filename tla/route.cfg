CONSTANTS
  ONE = 240
  Collaterals = {lsu, tok}
  Rates = {0, 240}
  MaxTime = 1
  Growth <- MCGrowth
  Borrowers = {}
  Nobody = Nobody
  NoNotice = NoNotice
  MaxCdps = 3
  InitialParameters <- MCParameters
  Prices <- Ones
  Mcrs <- Twos
  Deposits <- Sixes
  Mints <- OneOrTwo
  TopUps <- NoAmounts
  Withdrawals <- NoAmounts
  Repayments <- NoAmounts
  ExtraMints <- NoAmounts
  Redemptions <- NoAmounts
  TakeShares <- Ones
  ChargeRanges <- WholeRange
  IrredeemableRates = {0}
  BorrowerTerms = {}
  UserLinks = FALSE
  SameRateMoves = FALSE
  FreeAmounts <- NoAmounts
  Acceptances = {}
  StopSettings = {}
  VectorLengths = {}
  MinimumMints = {}
  FineSettings = {}
  InterestSettings = {}
  MaxCollateral = 2880
  MaxFree = 0
  InitialPoolParameters <- MCPoolParameters
  Default = Default
  Contributions <- Threes
  WithdrawnShares <- NoAmounts
  Purchases <- NoAmounts
  PoolSettings <- MCSettings
  PoolParameterSettings <- NoAmounts
  HistorySettings <- NoAmounts
  Allowances = {}
  Xrd = xrd
  LsuLp = lsu
  Token = tok
  NoPrice = NoPrice
  Markets <- MCMarkets
  Quote <- MCQuote
  LsuValue <- MCLsuValue
  InitialIdentifiers <- MCInitialIdentifiers
  InitialPriceAge = 1
  InitialMultiplierAge = 1
  NewIdentifiers <- MCIdentifiers
  PriceAges = {2}
  MultiplierAges = {0}
  Payments <- Threes
  MaxRedemptions = {2}
  PriceOrders <- MCOrders
  InitialFee <- MCFee
  Decay <- MCDecay
  FeeSettings <- MCFees
  EditedLoans = 2
  MaxEdits = 1
  LastOpening = 0
  Other = other
SPECIFICATION RouteSpec
INVARIANTS
  RouteTypeOK
  PricesFresh
  RouteBalanced
  RouteCarriedOut
