SPECIFICATION LiveSpec
CONSTANTS
  Runs = {r1, r2}
  Keys = {k1, d1}
  Delegations = {d1}
  MaxTasks = 1
  MaxCrashes = 2
  Faults = {"store"}
  None = None
  Ports = {n1, n2}
  PagePort = n1
  Conveyors = {c1}
  Loads = {q1}
  MaxCalls = 2
INVARIANTS NothingOutlivesThePicture
PROPERTIES StartedRunsEnd EveryPictureEnds
CHECK_DEADLOCK FALSE
