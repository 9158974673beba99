SPECIFICATION Spec
CONSTANTS
  NumItems = 3
  DumpEvery = 2
  Hash <- OwnPrompts
  ChatTimes = {1}
  Faults = {"crash", "torn", "unreachable", "lost", "no_choices"}
  MaxRuns = 2
INVARIANTS TypeOK LogsInServedOrder OutputOnce Completed LogsMatchOutput
PROPERTY FilesKept
CHECK_DEADLOCK FALSE
