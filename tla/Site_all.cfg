SPECIFICATION Spec
CONSTANTS
  Loops = {"l1", "l2"}
  SettingsFiles <- MCSettings
  Requests = {r1, r2}
  Servers <- MCServers
  Files = {"page", "script", "other"}
  Cooldown = 2
  Timeout = 1
  Layouts <- MCLayouts
  Reserved <- MCReserved
  EventPath = "/_event"
  Paths <- MCPaths
  MaxRuns = 3
  MaxReloads = 1
  Boots <- MCBoots
  Segments <- MCSegments
  t1 = t1
  t2 = t2
  Tabs = {t1, t2}
  ProcessOf <- MCProcessOf
  Names = {"a", "m"}
  Mails = {"m", "M"}
  Folded <- MCFolded
  FirstPasswords = {"p"}
  NewPasswords = {"q"}
  LoginFields = {"username", "email"}
  MaxLinks = 1
  Visitors = {"u"}
  Policies <- MCPolicies
  MaxQueue = 3
  MaxOutside = 2
  Programs <- MCPrograms
  Spellings <- MCSpellings
  Format <- MCFormat
  LoginRoute = "/login"
  RegisterRoute = "/register"
  ResetRoute = "/reset"
  ConfirmRoute = "/confirm"
INVARIANTS ChainsAsConfigured FallbackHasCause Arrives CatchAllLast AdminComplete DispatchAgrees OneOwnerUnlessOverlap RefusedAreSentAway HandlerWasAllowed EveryPageServed DispatchersComplete
PROPERTIES PauseEnds ViteComesUp RightPasswordGetsIn KeepsTheBook TabSettles
CHECK_DEADLOCK FALSE
