\* Loaded before subscribing, as the docs order on_load.
SPECIFICATION Spec
CONSTANTS
  Tabs = {a}
  Writers = {w1}
  Pks = {p}
  MaxWrites = 2
  SubscribeFirst = FALSE
  Transactions = FALSE
CHECK_DEADLOCK FALSE
INVARIANT InSync
