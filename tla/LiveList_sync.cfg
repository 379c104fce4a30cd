\* Subscribed before loading; another request that commits late or rolls back.
SPECIFICATION FairSpec
CONSTANTS
  Tabs = {a}
  Writers = {w1}
  Pks = {p, q}
  MaxWrites = 3
  SubscribeFirst = TRUE
  Transactions = TRUE
CHECK_DEADLOCK FALSE
INVARIANT NoDuplicateRows
INVARIANT InSync
PROPERTY ListConverges
