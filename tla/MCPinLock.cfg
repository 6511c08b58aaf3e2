SPECIFICATION PinSpec
CONSTANTS
  p = p
  q = q
  Pins <- MCPins
  OldPins <- MCOldPins
  NoPin = NoPin
  Salts = {1, 2, 3, 4}
  Jobs = {1, 2}
  ShortAfter = 1
  LongAfter = 2
  ShortLockout = 1
  LongLockout = 2
  ResumeGrace = 1
  Enrolled = TRUE
  MaxTried = 2
  MaxMishaps = 1
INVARIANTS
  PinLockInv
  OwnerNeverShutOut
  WrongPinsAreCounted
PROPERTIES
  LockoutsAreServed
  EveryLockOpens
CHECK_DEADLOCK FALSE
