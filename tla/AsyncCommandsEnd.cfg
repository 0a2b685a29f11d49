SPECIFICATION Spec
CONSTANTS
  Commands = {c1}
  Sessions = {s1}
  MonitorTicks = 2
  MaxDepth = 1
  EvictTicks = 2
  StuckTicks = 3
  SweepTicks = 1
\* Or PROPERTY InterruptedMeansStopped in its place.
INVARIANT ReportedFinishedHasFinished

