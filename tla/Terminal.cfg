CONSTANTS
  Tabs = {t1, t2}
  Sessions = {s1, s2}
  Sizes = {small, large}
  Themes = {dark}
  EventRoom = 3
  InputRoom = 1
  MaxSent = 3
  Linux = TRUE
  None = None
SPECIFICATION Spec
SYMMETRY MCSymmetry
INVARIANTS IInv InputIsForItsSession OutputKeepsItsOrder
CONSTRAINT FewEvents
