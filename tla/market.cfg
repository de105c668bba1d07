CONSTANTS
  ONE = 240
  Collaterals = {c1}
  Rates = {0, 240}
  MaxTime = 1
  Growth <- MCGrowth
  Borrowers = {}
  Nobody = Nobody
  NoNotice = NoNotice
  MaxCdps = 2
  InitialParameters <- MCFeeParameters
  Prices = {240, 480}
  Mcrs <- Twos
  Deposits <- Fours
  Mints <- Twos
  TopUps <- NoAmounts
  Withdrawals <- NoAmounts
  Repayments <- NoAmounts
  ExtraMints <- Twos
  Redemptions <- Twos
  TakeShares = {180}
  ChargeRanges <- SplitRanges
  IrredeemableRates = {0}
  BorrowerTerms = {}
  UserLinks = FALSE
  SameRateMoves = FALSE
  FreeAmounts <- Twos
  Acceptances = {}
  StopSettings = {}
  VectorLengths = {}
  MinimumMints = {}
  FineSettings = {}
  InterestSettings = {}
  MaxCollateral = 1920
  MaxFree = 480
SPECIFICATION Spec
PROPERTIES
  OwnerKeepsMcr
  RedemptionKeepsRatio
  TakersPay
  ImplementsLoanBook
