CONSTANTS
  r1 = r1
  r2 = r2
  r3 = r3
  Reqs = {r1, r2, r3}
  PromptLen <- MCPromptLen
  MaxNew = 3
  ChunkSize = 2
  MaxRunning = 2
  Loops = {"normal", "overlap"}
  Clients = {"collector", "many"}
  MaxRetracts = 1
  MaxAborts = 1
  None = None
  MaxFiles = 2
  MaxFaults = 1
  MaxRecoded = 1
  MaxEncoded = 2
SPECIFICATION FairSpec
INVARIANTS
  TypeOK
  NoRequestLost
  TokensInContext
  CapacityHeld
  RecordsPerAnswer
  StreamingIsBatch
  NormalLoopFits
PROPERTIES
  AnswerIsFinal
  EveryRequestEnds
