\* A none event after another one.
SPECIFICATION Spec
CONSTANTS
  Tasks = {k1, k2}
  root = root
  page = page
  cart = cart
  menu = menu
  States = {root, page, cart, menu}
  NoState = none
  Parent <- Tree
  MaxEvents = 2
CHECK_DEADLOCK FALSE
SYMMETRY Symmetry
INVARIANT NoneHasNoRequestOnBranch
