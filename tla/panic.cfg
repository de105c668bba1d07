CONSTANTS
  l1 = l1
  l2 = l2
  c1 = c1
  Cdps <- MCCdps
  Collaterals = {c1}
  CollateralOf <- MCCollateralOf
  Stablecoins = {usd1, usd2}
  FirstStablecoin = usd1
  NoTime = NoTime
  InitialWait = 1
  InitialCooldown = 1
  Periods <- MCPeriods
  Debts = {1, 2}
  PoolAmounts = {0, 1}
  Payments = {2}
  Redemptions = {2}
  NoticeFee = 1
  MaxTime = 4
SPECIFICATION Spec
SYMMETRY LoanSymmetry
INVARIANTS
  TypeOK
  Backed
PROPERTIES
  ActivationWaits
  StablecoinNeeded
