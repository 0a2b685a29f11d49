SPECIFICATION ClientSpec
CONSTANTS
  Ends <- MCEnds
  DefaultReadChars = 2
  MaxBufferChars = 2
  PageChars = 1
  MaxAttempts = 1
  MaxFailures = 2
  Limits <- MCLimits
\* Or RawPassthrough in its place.
INVARIANT NothingTwice
CHECK_DEADLOCK FALSE
