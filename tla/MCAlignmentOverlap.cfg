CONSTANTS
  r1 = r1
  r2 = r2
  r3 = r3
  Reqs = {r1, r2, r3}
  PromptLen <- MCPromptLen
  MaxNew = 1
  ChunkSize = 3
  MaxRunning = 2
  Loops = {"overlap"}
  Clients = {"collector"}
  MaxRetracts = 1
  MaxAborts = 1
  None = None
  MaxFiles = 2
  MaxFaults = 0
  MaxRecoded = 0
  MaxEncoded = 0
SPECIFICATION Spec
INVARIANTS
  RowsFitTokens
