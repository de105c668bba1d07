CONSTANTS
  ONE = 240
  Collaterals = {c1}
  Rates = {0}
  MaxTime = 2
  Growth <- MCGrowth
  Borrowers = {b1}
  Nobody = Nobody
  NoNotice = NoNotice
  MaxCdps = 2
  InitialParameters <- MCFreeNotice
  Prices = {120, 480}
  Mcrs <- Twos
  Deposits <- Fours
  Mints <- Twos
  TopUps <- NoAmounts
  Withdrawals <- NoAmounts
  Repayments <- NoAmounts
  ExtraMints <- NoAmounts
  Redemptions <- NoAmounts
  TakeShares <- Ones
  ChargeRanges = {}
  IrredeemableRates = {0}
  BorrowerTerms <- MCBorrowerTerms
  UserLinks = TRUE
  SameRateMoves = FALSE
  FreeAmounts <- NoAmounts
  Acceptances = {}
  StopSettings <- MCOpeningStops
  VectorLengths = {}
  MinimumMints = {}
  FineSettings = {}
  InterestSettings = {}
  MaxCollateral = 1920
  MaxFree = 0
SPECIFICATION FairSpec
INVARIANTS
  MarkRecorded
  LinkRecorded
PROPERTIES
  NoticeRespected
  LinksLimited
  
