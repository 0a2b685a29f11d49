SPECIFICATION Spec
CONSTANTS
  MaxLines = 3
  Chunks <- SmallChunks
  EventSizes = {1, 2}
  PageSizes = {1, 2}
  MaxPrinted = 5
  MaxNumber = 8
INVARIANT HistoryFaithful
PROPERTIES NumbersStable ReaderGoesOn
