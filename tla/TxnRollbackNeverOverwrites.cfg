SPECIFICATION HistorySpec
CONSTANTS
  Workers = {w1, w2}
  Sets = {x1}
  Paths = {"a", "b"}
  Files = {"1", "2"}
  Trees = {"t"}
  Absent = "absent"
  OpLists <- MCOpLists
  MaxCopies = 0
  Faults = {"disk", "store"}
PROPERTIES
  RollbackNeverOverwrites
CHECK_DEADLOCK FALSE
