SPECIFICATION Spec
INVARIANTS
  TabShowsItsSession SessionsAreHeldOrCancelled RequestsFitTheTabs ClosingTabsHaveATimer IInv
CONSTRAINTS OneByOne FewRequests FewClosings OneTabOfEachKind InOrder
ACTION_CONSTRAINT Focus
SYMMETRY Symmetry
PROPERTY StaleClicksConsumeNothing
CONSTANTS
  t1 = t1
  t2 = t2
  s1 = s1
  s2 = s2
  s3 = s3
  p1 = p1
  p2 = p2
  a = a
  b = b
  None = None
  Local = Local
  TabIds = {t1, t2}
  Profiles = {a, b}
  AuthOf <- MixedAuths
  Sessions = {s1, s2}
  Prompts = {p1}
CHECK_DEADLOCK FALSE
