SPECIFICATION LiveSpec
CONSTANTS
  a = a
  b = b
  Users <- MCUsers
  Authority = a
  LoanIds = {1, 2}
  GracePeriod = 2
  Year = 4
  Tier1Bond = 1
  Tier2Bond = 9
  PriceScale = 1
  StakedCounterMax = 8
  InitialLiquidity <- MCLiquidity
  InitialCollateral <- SolOnly
  PoolTerms <- MCTerms
  LiquidityAmounts = {800}
  BorrowAmounts = {400}
  CollateralAmounts = {20}
  StakeAmounts = {2}
  Donors = {}
  Durations = {1, 2}
  Prices = {40}
  YieldRoutes = {"omitted"}
  Horizon = 5
PROPERTIES
  KeepsPawnPromise
  EveryLoanSettles
CHECK_DEADLOCK FALSE
