SPECIFICATION FairSpec
CONSTANTS
  Clients = {c1}
  HintClients = {}
  MaxBufferChars = 3
  DefaultReadChars = 2
  MaxTranscriptEvents = 2
  MaxTranscriptChars = 4
  MaxTranscriptEventChars = 2
  ClipNotice = 1
  PageSizes = {1, 3}
  ChunkSizes = {1, 2, 4}
  MaxOutput = 7
  MaxEvents = 5
INVARIANTS RingsExact NoLostWakeup ReadsOnward
PROPERTY PollReturns
