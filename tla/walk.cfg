SPECIFICATION Spec
CONSTANTS
  DefaultPerPage = 1
  MaxPerPage = 3
  MaxInt = 7
  None = None
  Rows = {r1, r2, r3, r4}
  Times = {0, 1, 2, 3}
  FirstPages = {1, 2, 7}
  PerPageArgs = {None, 2, 5}
  MaxSeeded = 4
  MaxChanges = 2
SYMMETRY RowSymmetry
CHECK_DEADLOCK FALSE
INVARIANTS
  WalkTypeOK
  WholeListWalked
  MissesAreBounded
  RepeatsAreBounded
  PageIsShownUnlessWrapped
