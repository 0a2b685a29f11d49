SPECIFICATION Spec
CONSTANTS
  MaxTicks = 5
  IdleTicks = 3
  FinishTicks = 2
  Window = 4
  MaxWire = 4
INVARIANT SentinelMeansExit
CHECK_DEADLOCK FALSE
