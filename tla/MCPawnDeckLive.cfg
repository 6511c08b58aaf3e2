SPECIFICATION LiveSpec
CONSTANTS
  a = a
  b = b
  c = c
  Users <- MCUsers
  OfferIds = {1}
  Nobody = Nobody
  GracePeriod = 2
  Year = 4
  PriceScale = 1
  LiquidityMints = {"devnet", "mainnet"}
  InitialLiquidity <- MCLiquidityMutual
  InitialCollateral <- MCCollateralDust
  Requests = {8}
  Interests = {0, 4}
  CollateralAmounts = {10}
  Durations = {1, 2}
  Prices = {1}
  Donations = {1}
  Horizon = 5
PROPERTIES
  EscrowPaysTheRightParty
  KeepsPawnPromise
  EveryPawnSettles
CHECK_DEADLOCK FALSE
