SPECIFICATION FairSpec
CONSTANTS
  Callers = {c1, c2, c3, c4}
  Ranks = {r1, r2}
  None = None
INVARIANTS TypeOK OneInFlight OwnAnswers
PROPERTY CallsEnd
CHECK_DEADLOCK FALSE
