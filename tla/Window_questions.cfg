SPECIFICATION Spec
CONSTANTS
  Tabs = {t1}
  Things = {d1, d2}
  EditorIds = {e1, e2}
  MaxRequests = 2
  None = None
PROPERTIES KeysStayInTheDialog NothingIsLostUnasked
SYMMETRY MCSymmetry
CONSTRAINTS FewDialogs FewTabs FewMoves
