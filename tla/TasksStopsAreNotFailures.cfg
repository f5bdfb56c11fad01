SPECIFICATION Spec
CONSTANTS
  Runs = {r1}
  Keys = {k1}
  Delegations = {}
  MaxTasks = 1
  MaxCrashes = 0
  Faults = {}
  None = None
PROPERTY StopsAreNotFailures
