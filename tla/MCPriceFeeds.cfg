SPECIFICATION Spec
CONSTANTS
  root = root
  desk = desk
  Keys <- MCKeys
  Root = root
  Pools <- MCPools
  PoolAuthority <- MCPoolAuthority
  OracleFree <- MCPools
  NativePools <- MCPools
  MaxPriceAge = 0
  StoredWindow = 2
  Baseline <- MCBaseline
  PublishedMints <- MCSolAndSkr
  Prices <- MCTwoPrices
  Horizon = 2
INVARIANTS
  FeedInv
  CustomFeedIsAuthoritative
  StalePricesRefused
  CrossBorrowsAreServed
PROPERTIES
  PublishersOnlyByRotation
CHECK_DEADLOCK FALSE
