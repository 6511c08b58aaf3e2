SPECIFICATION Spec
CONSTANTS
  a = a
  b = b
  Users <- MCUsers
  Authority = a
  LoanIds = {1, 2}
  GracePeriod = 1
  Year = 4
  Tier1Bond = 1
  Tier2Bond = 9
  PriceScale = 1
  StakedCounterMax = 8
  InitialLiquidity <- MCLiquidity
  InitialCollateral <- SolAndStake
  PoolTerms <- MCTerms
  LiquidityAmounts = {800}
  BorrowAmounts = {400}
  CollateralAmounts = {20}
  StakeAmounts = {2, 8}
  Donors = {}
  Durations = {1}
  Prices = {40}
  YieldRoutes = {"omitted"}
  Horizon = 3
INVARIANTS
  PoolInv
  BondsMatchLoans
  CountersMatchLoans
  LenderCanAlwaysAct
PROPERTIES
  SettledForever
CHECK_DEADLOCK FALSE
