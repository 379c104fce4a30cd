\* The default settings, with the server's fairness: a lost identity is lost
\* for good.
SPECIFICATION FairSpec
CONSTANTS
  Tabs = {t1}
  Sessions = {s1, s2}
  Users = {u1}
  Anon = Anon
  Gone = Gone
  NoKey = NoKey
  FastAuth = FALSE
  TTL = 2
  Kinds = {"plain", "save", "login", "logout"}
  EarlyResponse = TRUE
INVARIANT TypeOK
INVARIANT ServedWhileSignedIn
PROPERTY KeepsBook
PROPERTY StaleIdentityExpires
