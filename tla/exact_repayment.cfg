CONSTANTS
  ONE = 240
  Collaterals = {c1}
  Rates = {0}
  MaxTime = 0
  Growth <- MCGrowth
  Borrowers = {}
  Nobody = Nobody
  NoNotice = NoNotice
  MaxCdps = 2
  InitialParameters <- MCParameters
  Prices <- Ones
  Mcrs <- Twos
  Deposits <- Fours
  Mints <- Twos
  TopUps <- NoAmounts
  Withdrawals <- NoAmounts
  Repayments <- Twos
  ExtraMints <- NoAmounts
  Redemptions <- NoAmounts
  TakeShares <- Ones
  ChargeRanges <- WholeRange
  IrredeemableRates = {0}
  BorrowerTerms = {}
  UserLinks = FALSE
  SameRateMoves = FALSE
  FreeAmounts <- NoAmounts
  Acceptances = {}
  StopSettings = {}
  VectorLengths = {}
  MinimumMints = {}
  FineSettings = {}
  InterestSettings = {}
  MaxCollateral = 1920
  MaxFree = 0
SPECIFICATION Spec
INVARIANTS
  ExactRepaymentCloses
