SPECIFICATION FairSpec
CONSTANTS
  Commands = {c1, c2}
  Sessions = {s1, s2}
  MonitorTicks = 1
  MaxDepth = 2
  EvictTicks = 0
  StuckTicks = 2
  SweepTicks = 1
INVARIANT EntryLifetime
PROPERTIES NoResurrection EntriesForgotten
