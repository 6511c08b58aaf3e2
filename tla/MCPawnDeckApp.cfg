SPECIFICATION AppSpec
CONSTANTS
  a = a
  b = b
  c = c
  Users <- MCUsers
  OfferIds = {1}
  Nobody = Nobody
  GracePeriod = 1
  Year = 2
  PriceScale = 1
  LiquidityMints = {"usdc"}
  InitialLiquidity <- MCLiquidityApp
  InitialCollateral <- MCCollateralApp
  Requests = {2}
  Interests = {1}
  CollateralAmounts = {1}
  Durations = {1}
  Prices = {3}
  Donations = {}
  Horizon = 1
  Me = b
  PawnMints = {"SOL"}
  MaxAnswers = 2
  Slots = {1}
INVARIANTS
  ScreenKeepsUp
CHECK_DEADLOCK FALSE
