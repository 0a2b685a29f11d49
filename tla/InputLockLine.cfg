SPECIFICATION Spec
CONSTANTS
  Runners = {r1}
  Retriers = {}
  Viewers = {v1}
  MaxRetries = 1
  MaxDraft = 1
PROPERTY DraftSeesLine
