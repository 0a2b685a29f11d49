SPECIFICATION Spec
CONSTANTS
  Runners = {r1}
  Retriers = {}
  Viewers = {v1, v2}
  MaxRetries = 1
  MaxDraft = 1
PROPERTY NoAgentWriteIntoDraft
