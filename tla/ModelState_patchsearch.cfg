\* A class that patches what a search found.
SPECIFICATION Spec
CONSTANTS
  Values = {v, w}
  Blank = blank
  MaxRows = 2
  MaxUpdates = 1
  MaxPageSize = 2
  Options <- PatchedSearch
  Failing = {}
CHECK_DEADLOCK FALSE
INVARIANT ListIsPage
SYMMETRY Symmetry
