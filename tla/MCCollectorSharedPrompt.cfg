SPECIFICATION Spec
CONSTANTS
  NumItems = 3
  DumpEvery = 2
  Hash <- SharedPrompts
  ChatTimes = {1}
  Faults = {"crash"}
  MaxRuns = 2
INVARIANT Completed
CHECK_DEADLOCK FALSE
