CONSTANTS
  ONE = 240
  Collaterals = {c1, c2}
  Rates = {0, 240}
  MaxTime = 1
  Growth <- MCGrowth
  Borrowers = {}
  Nobody = Nobody
  NoNotice = NoNotice
  MaxCdps = 2
  InitialParameters <- MCParameters
  Prices <- Ones
  Mcrs = {480}
  Deposits <- Fours
  Mints <- Twos
  TopUps <- NoAmounts
  Withdrawals <- NoAmounts
  Repayments <- NoAmounts
  ExtraMints <- NoAmounts
  Redemptions <- NoAmounts
  TakeShares <- Ones
  ChargeRanges <- WholeRange
  IrredeemableRates = {0}
  BorrowerTerms = {}
  UserLinks = FALSE
  SameRateMoves = FALSE
  FreeAmounts <- NoAmounts
  Acceptances = {FALSE}
  StopSettings <- MCStops
  VectorLengths = {1}
  MinimumMints = {0}
  FineSettings <- MCFines
  InterestSettings <- MCInterestSettings
  MaxCollateral = 1920
  MaxFree = 0
SPECIFICATION Spec
INVARIANTS
  IndexConsistent
  DebtReconciles
  
