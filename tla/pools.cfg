CONSTANTS
  ONE = 240
  Collaterals = {c1}
  Rates = {0, 240}
  MaxTime = 1
  Growth <- MCGrowth
  Borrowers = {b1}
  Nobody = Nobody
  NoNotice = NoNotice
  MaxCdps = 1
  InitialParameters <- MCParameters
  Prices <- Ones
  Mcrs <- Twos
  Deposits <- Sixes
  Mints <- Twos
  TopUps <- NoAmounts
  Withdrawals <- NoAmounts
  Repayments <- NoAmounts
  ExtraMints <- NoAmounts
  Redemptions <- NoAmounts
  TakeShares <- Ones
  ChargeRanges <- WholeRange
  IrredeemableRates = {0}
  BorrowerTerms <- MCBorrowerTerms
  UserLinks = FALSE
  SameRateMoves = FALSE
  FreeAmounts <- NoAmounts
  Acceptances = {}
  StopSettings = {}
  VectorLengths = {}
  MinimumMints = {}
  FineSettings = {}
  InterestSettings = {}
  MaxCollateral = 1920
  MaxFree = 960
  InitialPoolParameters <- MCPoolParameters
  Default = Default
  Contributions <- Twos
  WithdrawnShares <- Ones
  Purchases <- Ones
  PoolSettings <- MCTwoSettings
  PoolParameterSettings <- MCPoolParameterSettings
  HistorySettings <- MCHistorySettings
  Allowances = {TRUE}
  FlashAmounts <- Twos
  FlashSettings <- MCFlashSettings
  MaxReceipts = 2
  InitialPayment = 1
  PayoutSettings <- MCPayoutSettings
  RewardGifts <- Fours
  MaxPayments = 1
  Dust = 4
  MaxEdits = 1
SPECIFICATION ProtocolSpec
INVARIANTS
  ProtocolTypeOK
  EveryFusdOwed
PROPERTIES
  SharesKeepWorth
  LiquidationPays
  ContributorsWait
  IrredeemableRateFollows
CHECK_DEADLOCK FALSE
