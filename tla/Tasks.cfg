SPECIFICATION Spec
CONSTANTS
  Runs = {r1, r2, r3}
  Keys = {k1, d1}
  Delegations = {d1}
  MaxTasks = 1
  MaxCrashes = 1
  Faults = {}
  None = None
SYMMETRY Perms
INVARIANTS OneRunPerKey RunningIsListed OneEnding OwnEndsAgree NoProcessOutlivesClose
PROPERTIES RunsLiveOnce
