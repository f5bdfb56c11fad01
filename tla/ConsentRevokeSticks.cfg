SPECIFICATION ConsentSpec
CONSTANTS
  Callers = {c1}
  Surfaces = {s1}
  MaxPrompts = 1
  Workspaces = {"w1"}
  Platforms = {"claude"}
  Jobs <- MCJobs
  Installations <- MCInstallations
  Requests <- AllRequests
INVARIANT RevokeSticks
CHECK_DEADLOCK FALSE
