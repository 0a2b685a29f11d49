SPECIFICATION Spec
CONSTANTS
  Runners = {r1, r2}
  Retriers = {}
  Viewers = {v1}
  MaxRetries = 1
  MaxDraft = 1
INVARIANT OneCommandInFlight
