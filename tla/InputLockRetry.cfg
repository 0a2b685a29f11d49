SPECIFICATION Spec
CONSTANTS
  Runners = {r1}
  Retriers = {t1}
  Viewers = {v1}
  MaxRetries = 1
  MaxDraft = 1
\* Or SafeModeHolds in its place.
PROPERTY NoCommandOverTimedOut
