SPECIFICATION GhostSpec
CONSTANTS
  a = a
  b = b
  MaxDust = 0
  Users <- MCUsers
  YieldScale = 2
  MinStakeAge = 1
  InitialSkr <- MCSkrEven
  Stakes = {1, 2}
  Rewards = {1, 3}
  EscrowGifts = {}
  VaultGifts = {}
  Synced = {TRUE, FALSE}
  MaxRewards = 3
  Horizon = 2
PROPERTIES
  GhostSharesEarnNothing
SYMMETRY Stakers
CHECK_DEADLOCK FALSE
