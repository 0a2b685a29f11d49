\* The page shows a rule of a file that says "warn" as an error.
SPECIFICATION RulesSpec
CONSTANTS
  Installed <- MCInstalledWarn
  ConfigWrites = {}
  ToolRules = {}
  Edits = {}
  NewId = 9
  LongIds = {}
  MaxRefreshes = 1
  MaxEvents = 2
INVARIANT VerdictAsShown
CHECK_DEADLOCK FALSE
