SPECIFICATION EventSpec
CONSTANTS
  Server = {w1, w2}
  Event = {e1, e2}
  LateReports = TRUE
INVARIANT NewsIsNotLost
CHECK_DEADLOCK FALSE
