CONSTANTS
  ONE = 240
  Collaterals = {c1}
  Rates = {0, 240}
  MaxTime = 1
  Growth <- MCGrowth
  Borrowers = {}
  Nobody = Nobody
  NoNotice = NoNotice
  MaxCdps = 2
  InitialParameters <- MCParameters
  Prices <- Ones
  Mcrs <- Twos
  Deposits <- Fours
  Mints <- Twos
  TopUps <- Twos
  Withdrawals <- Twos
  Repayments <- Ones
  ExtraMints <- Twos
  Redemptions <- Ones
  TakeShares <- Ones
  ChargeRanges <- WholeRange
  IrredeemableRates = {0}
  BorrowerTerms = {}
  UserLinks = FALSE
  SameRateMoves = FALSE
  FreeAmounts <- NoAmounts
  Acceptances = {}
  StopSettings = {}
  VectorLengths = {}
  MinimumMints = {}
  FineSettings = {}
  InterestSettings = {}
  MaxCollateral = 1920
  MaxFree = 0
SPECIFICATION Spec
INVARIANTS
  TypeOK
  IndexConsistent
  TiersTrackIndex
  PoolDebtMatches
  RatiosNotNegative
  CirculationReconciles
  
  
PROPERTIES
  DebtOnlyRepaid
  RedemptionInOrder
  EndedIsFinal
