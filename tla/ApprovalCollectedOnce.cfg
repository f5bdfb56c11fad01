SPECIFICATION HistorySpec
CONSTANTS
  Callers = {c1, c2}
  Surfaces = {s1}
  MaxPrompts = 2
  Requests <- MCRequests
PROPERTY CollectedOnce
CHECK_DEADLOCK FALSE
