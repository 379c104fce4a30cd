\* A writer inside a transaction.
SPECIFICATION Spec
CONSTANTS
  Tabs = {a}
  Writers = {w1}
  Pks = {p}
  MaxWrites = 2
  SubscribeFirst = TRUE
  Transactions = TRUE
CHECK_DEADLOCK FALSE
INVARIANT AlwaysInSync
