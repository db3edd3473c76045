CONSTANTS
  None = None
  Profiles = {p1, p2}
  Secrets = {x, y}
  Faults = {"get"}
SPECIFICATION Spec
INVARIANT FailureLeavesBothIntact
CHECK_DEADLOCK FALSE
