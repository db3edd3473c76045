SPECIFICATION Spec
CONSTANTS
  t1 = t1  t2 = t2  p1 = p1  x = x  X = X  y = y  blank = blank
  Tags = {t1, t2}
  Profiles = {p1}
  Names = {x, X, y, blank}
  BadNames = {blank}
  Blank = blank
  Folded <- MCFolded
  Colors = {}
  Settings = {system}
  DefaultSettings = system
  Files <- MCFiles
  Faults = {"late", "reload", "outside"}
  MaxFaults = 1
  EditorIds = {e1, e2}
  Missing = Missing
  Damaged = Damaged
  None = None
INVARIANTS IInv DialogsFollow
PROPERTIES NothingStoredIsLost SavesCloseTheirOwnEditor
SYMMETRY MCSymmetry
CHECK_DEADLOCK FALSE
CONSTRAINT FewFilters
