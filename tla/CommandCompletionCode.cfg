SPECIFICATION Spec
CONSTANTS
  MaxTicks = 5
  IdleTicks = 3
  FinishTicks = 2
  Window = 8
  MaxWire = 4
INVARIANT SentinelHasExitCode
CHECK_DEADLOCK FALSE
