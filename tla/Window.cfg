SPECIFICATION Spec
CONSTANTS
  Tabs = {t1, t2}
  Things = {d1}
  EditorIds = {e1}
  MaxRequests = 2
  None = None
INVARIANTS IInv SecretStaysWithItsTab
PROPERTIES TypingIsNotDisturbed
SYMMETRY MCSymmetry
CONSTRAINTS FewDialogs FewTabs FewMoves
