SPECIFICATION Spec
CONSTANTS
  a = a
  b = b
  Users <- MCUsers
  Authority = a
  LoanIds = {1}
  GracePeriod = 1
  Year = 4
  Tier1Bond = 1
  Tier2Bond = 9
  PriceScale = 1
  StakedCounterMax = 8
  InitialLiquidity <- MCLiquidityFees
  InitialCollateral <- BothMints
  PoolTerms <- MCTerms
  LiquidityAmounts = {800, 1600}
  BorrowAmounts = {800}
  CollateralAmounts = {20}
  StakeAmounts = {29}
  Donors = {b}
  Durations = {1, 2}
  Prices = {80}
  YieldRoutes = {"omitted", "matching", "mismatched"}
  Horizon = 3
INVARIANTS
  BorrowedMatchesLoans
PROPERTIES
  CollateralReleasedOnlyAtSettlement
  LossesAreExplained
CHECK_DEADLOCK FALSE
