SPECIFICATION RedisSpec
CONSTANTS
  NCommands = 3
  NSockets = 2
  Password = TRUE
  Database = TRUE
  Texts <- MCTexts
  MaxElements = 2
  MaxReplies = 2
INVARIANT BytesCounted
\* After the last call the client rests.
CHECK_DEADLOCK FALSE
