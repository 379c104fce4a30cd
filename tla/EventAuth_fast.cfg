\* The fast path on: staleness may happen, mistaking or forgetting to forget
\* may not.
SPECIFICATION Spec
CONSTANTS
  Tabs = {t1, t2}
  Sessions = {s1, s2}
  Users = {u1}
  Anon = Anon
  Gone = Gone
  NoKey = NoKey
  FastAuth = TRUE
  TTL = 1
  Kinds = {"plain", "save", "login", "logout"}
  EarlyResponse = FALSE
SYMMETRY Symmetry
INVARIANT IdentityIsOwners
INVARIANT DeletedUserNeverServed
INVARIANT QuietLogoutIsFinal
