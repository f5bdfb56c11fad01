SPECIFICATION ConsentSpec
CONSTANTS
  Callers = {c1, c2}
  Surfaces = {s1}
  MaxPrompts = 1
  Workspaces = {"w1"}
  Platforms = {"claude", "grok"}
  Jobs <- MCJobs
  Installations <- MCInstallations
  Requests <- AllRequests
SYMMETRY Perms
INVARIANTS
  GrantNeedsYes
  YesIsRemembered
PROPERTIES
  DisclosureNeedsItsOwnYes
CHECK_DEADLOCK FALSE
