SPECIFICATION Spec
CONSTANTS
  NumItems = 4
  DumpEvery = 2
  Hash <- OwnPrompts
  ChatTimes = {1, 2}
  Faults = {}
  MaxRuns = 1
PROPERTY FilesKept
CHECK_DEADLOCK FALSE
