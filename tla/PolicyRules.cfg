SPECIFICATION RulesSpec
CONSTANTS
  Installed <- MCInstalled
  ConfigWrites <- MCConfigWrites
  ToolRules <- MCToolRules
  Edits <- MCEdits
  NewId = 9
  LongIds <- MCLongIds
  MaxRefreshes = 1
  MaxEvents = 4
INVARIANTS DefaultsCovered VerdictAsShown
PROPERTIES SavedAsSent FollowsServer
CHECK_DEADLOCK FALSE
