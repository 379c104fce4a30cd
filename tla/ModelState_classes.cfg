\* Lists that reload and lists that are patched, with and without pages.
SPECIFICATION Spec
CONSTANTS
  Values = {v, w}
  Blank = blank
  MaxRows = 3
  MaxUpdates = 1
  MaxPageSize = 2
  Options <- Classes
  Failing <- Patching
CHECK_DEADLOCK FALSE
INVARIANT TypeOK
INVARIANT NoErasedEdit
INVARIANT NoSecondInsert
INVARIANT PageVarsAgree
INVARIANT ListIsPage
SYMMETRY Symmetry
