CONSTANTS
  UI = UI
  None = None
  Sessions = {s1, s2}
  Endpoints = {e1}
  Keys = {k1, k2}
  EndpointOf <- OneEndpoint
SPECIFICATION FairSpec
INVARIANTS
  OpenPromptsAreServed OnlyStoredKeysPass IInv
PROPERTIES SettledOnce ImplementsTrustOnFirstUse NoVerificationHangs
CHECK_DEADLOCK FALSE
