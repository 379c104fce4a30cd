\* Four events of a tab on two tasks.
SPECIFICATION Spec
CONSTANTS
  Tasks = {k1, k2}
  root = root
  page = page
  cart = cart
  menu = menu
  States = {root, page, cart, menu}
  NoState = none
  Parent <- Tree
  MaxEvents = 4
CHECK_DEADLOCK FALSE
SYMMETRY Symmetry
INVARIANT TypeOK
INVARIANT RequestsAgree
INVARIANT OwnRequestOnly
INVARIANT NoneHasNoRequest
