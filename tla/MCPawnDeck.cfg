SPECIFICATION Spec
CONSTANTS
  a = a
  b = b
  c = c
  Users <- MCUsers
  OfferIds = {1, 2}
  Nobody = Nobody
  GracePeriod = 1
  Year = 4
  PriceScale = 1
  LiquidityMints = {"usdc"}
  InitialLiquidity <- MCLiquidity
  InitialCollateral <- MCCollateral
  Requests = {8}
  Interests = {0, 4}
  CollateralAmounts = {10}
  Durations = {1}
  Prices = {1}
  Donations = {}
  Horizon = 3
INVARIANTS
  DeckInv
  WalletsMatchOffers
  PartiesCanAct
PROPERTIES
  TermsFrozen
SYMMETRY Peers
CHECK_DEADLOCK FALSE
