SPECIFICATION FairBoxSpec
CONSTANTS
  Pid = {p1, p2}
  Threshold = 5
  Hub = {h1}
  Address = {a1, a2}
  Token = {k1}
  Light = {l1}
  Unauthorized = Unauthorized
  Nupnp = Nupnp
  On = On
  Off = Off
  MaxTries = 1
  MaxQueue = 1
  Property <- Properties
  Setting <- Settings
  Flags <- CommandLines
  Fingerprint = {f1, f2}
  s1 = s1
  s2 = s2
  old = old
  new = new
  broken = broken
  ScriptId = {s1, s2}
  Source = {old, new, broken}
  Valid = {old, new}
  SqlMayFail = TRUE
  MayPanic = TRUE
  Camera = {c1}
  Visit = {v1, v2}
  Client = {t1, t2}
  MaxShots = 2
  MaxSecond = 1
  u1 = u1
  u2 = u2
  WebUser = {u1, u2}
  Caller = {b1, b2}
  PushUri = {x1}
  Resource <- Resources
  ResourceLists <- ListsOfResources
CHECK_DEADLOCK FALSE
INVARIANTS
  BoxTypeOK
  NothingLeftRunning
  PausesBounded
  Remembered
  LightsOfPairedHubs
  IdentityKept
  NamesServed
  ExecutionsTracked
  ManagerAsStored
  RemovedIsGone
  CamerasAnswer
  SnapshotsKept
  NotifiedAsAsked
PROPERTIES
  ShutdownReturns
