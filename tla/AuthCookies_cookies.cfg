CONSTANTS
  Tabs = {t1, t2}
  Sessions = {s1, s2, s3}
  Left = {s1}
  Users = {u1}
  Anon = Anon
  Gone = Gone
  NoKey = NoKey
  OtherCookies = FALSE
  AutoSync = FALSE
  MaxActs = 3
SPECIFICATION FairSpec
INVARIANTS TypeOK LandsSignedIn SignedOutStays BrowserFollowsSignOut
PROPERTY SignInArrives
CHECK_DEADLOCK FALSE
