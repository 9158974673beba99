SPECIFICATION Spec
CONSTANTS
  Callers = {c1, c2, c3}
  Ranks = {r1}
  None = None
INVARIANT AssertionsHold
CHECK_DEADLOCK FALSE
