SPECIFICATION Spec
CONSTANTS
  Workers = {w1, w2}
  Sets = {x1}
  Paths = {"a", "b"}
  Files = {"1", "2"}
  Trees = {"t"}
  Absent = "absent"
  OpLists <- MCOpLists
  MaxCopies = 0
  Faults = {"disk", "store"}
SYMMETRY Perms
INVARIANTS
  UndoRestores
  EffectsAreTrue
  RollbackIsInverse
  AppliesOnce
  ApprovedIsCarriedOut
  WindowClosesFirst
PROPERTIES
  LivesItsLife
CHECK_DEADLOCK FALSE
