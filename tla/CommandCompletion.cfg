SPECIFICATION FairSpec
CONSTANTS
  MaxTicks = 5
  IdleTicks = 3
  FinishTicks = 2
  Window = 4
  MaxWire = 4
INVARIANT SentinelEndsWait
PROPERTIES ResultHonest WaitReturns
CHECK_DEADLOCK FALSE
