CONSTANTS
  None = None
  Profiles = {p1, p2}
  Secrets = {x, y}
  Faults = {"put", "delete", "write"}
SPECIFICATION Spec
SYMMETRY Symmetry
INVARIANTS FailureLeavesBothIntact StoresAgree
CHECK_DEADLOCK FALSE
