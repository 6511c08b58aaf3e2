SPECIFICATION ClientSpec
CONSTANTS
  root = root
  Keys <- MCKeys
  Root = root
  Pools <- MCPools
  PoolAuthority <- MCPoolAuthority
  OracleFree <- MCNone
  NativePools <- MCNone
  MaxPriceAge = 2
  StoredWindow = 12
  Baseline <- MCBaseline
  PublishedMints <- MCNone
  Prices <- MCNone
  Horizon = 8
  Period = 2
  Jitter = 1
  RunTime = 1
  MaxMisses = 1
  MaxRuns = 2
  h1 = h1
  h2 = h2
  l1 = l1
  l2 = l2
  n1 = n1
  n2 = n2
  Polls <- MCNames
  Networks = {"main"}
  FormNetwork = "main"
  Assets = {"SOL", "SKR"}
  Sol = "SOL"
  Quotes = {2}
  Hardcoded = 3
  Balances = {3, 30}
  Amounts = {5}
  Ltv = 70
  Part <- MCPart
  Tasks <- MCNames
  NoOne = NoOne
  MaxSent = 2
  MaxFaults = 1
  Homes <- MCHomes
  NoHome = NoHome
  LoanIds <- MCLoanIds
  Jobs <- MCNames
  Handlers <- MCNames
  MaxMishaps = 1
  Clusters = {"main", "dev"}
  DefaultCluster = "main"
CHECK_DEADLOCK FALSE
INVARIANTS
  FeedsAreKept
  PriceIsRecent
  FormShowsTheLivePrices
  QuotesAreSound
  DealingsShowOnce
  OrdersStayHome
  StoreMatchesDealings
  TransactionsAreUnderstood
CONSTRAINT Unmixed
ACTION_CONSTRAINT RequestsApart
SYMMETRY Alike
