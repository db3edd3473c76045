CONSTANTS
  None = None
  Profiles = {p1}
  Secrets = {x, y}
  Faults = {"get", "put", "delete", "write", "late", "reload", "lost", "crash"}
SPECIFICATION Spec
INVARIANT IInv
PROPERTIES NewReferencesAreBacked KeyringTakesRememberedSecrets
CHECK_DEADLOCK FALSE
