SPECIFICATION ConnSpec
CONSTANTS
  Callers = {"k1", "k2"}
  NoCaller = NoCaller
INVARIANTS
  WaitersAreReleased
CHECK_DEADLOCK FALSE
