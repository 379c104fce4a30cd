\* The fast path on: each event prolongs the identity it was served from.
SPECIFICATION FairSpec
CONSTANTS
  Tabs = {t1}
  Sessions = {s1, s2}
  Users = {u1}
  Anon = Anon
  Gone = Gone
  NoKey = NoKey
  FastAuth = TRUE
  TTL = 2
  Kinds = {"plain", "logout"}
  EarlyResponse = FALSE
PROPERTY StaleIdentityExpires
