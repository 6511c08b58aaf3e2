SPECIFICATION DustSpec
CONSTANTS
  a = a
  b = b
  MaxDust = 3
  Users <- MCUsers
  YieldScale = 2
  MinStakeAge = 1
  InitialSkr <- MCSkrOne
  Stakes = {1}
  Rewards = {1, 2}
  EscrowGifts = {1}
  VaultGifts = {1}
  Synced = {TRUE, FALSE}
  MaxRewards = 3
  Horizon = 2
INVARIANTS
  YieldInv
  SharesMatchPositions
  RewardsArePaidOnce
PROPERTIES
  OthersCannotDiminish
SYMMETRY Stakers
CHECK_DEADLOCK FALSE
