SPECIFICATION FairSpec
CONSTANTS
  Runners = {r1}
  Retriers = {t1}
  Viewers = {v1}
  MaxRetries = 1
  MaxDraft = 2
INVARIANTS DraftHasOwner LineWithinDraft
PROPERTIES NoCommandOverRunning NoUserKeysIntoCommand ImplementsCommandSlot CallsReturn
