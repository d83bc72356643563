SPECIFICATION MCSpec
CONSTANTS
  r1 = r1
  r2 = r2
  d1 = d1
  d2 = d2
  c1 = c1
  c2 = c2
  e1 = e1
  e2 = e2
  e3 = e3
  m1 = m1
  m2 = m2
  m3 = m3
  o1 = o1
  o2 = o2
  p1 = p1
  p2 = p2
  k1 = k1
  k2 = k2
  k3 = k3
  s1 = s1
  None = None
  Operator = {o1, o2}
  HomeDisturbances = 1
  Event = {e1, e2, e3}
  DedupeCapacity = 2
  RateLimit = 2
  Window = 1
  MaxTime = 3
  MaxLog = 5
  Envelope = {e1, e2}
  PostParts = 2
  Refusable = {e2}
  MaxTries = 2
  MaxDeliveries = 2
  OutboundDisturbances = 1
  Message = {m1, m2, m3}
  MaxAcks = 2
  InboundDisturbances = 1
  Glyph = {"x", "s", "n", "f", "t", "u"}
  MaxText = 6
  ChunkTarget = 3
  TailSearch = 2
  HardLimit = 4
  Fence = 1
  MaxChunks = 4
  Pid = {p1, p2}
  Newest = 3
  MaxCuts = 1
  Context = {k1, k2, k3}
  Session = {s1}
  MaxCrashes = 1
  HourlyKeep = 2
  DailyKeep = 2
  LastInstant = 8
  BackupMishaps = 1
  Entry = {1, 2, 3, 4, 5, 6, 7}
  Attr <- Entries
  Mains <- MainFiles
  Fragments <- FragmentFiles
  Template <- Templates
  Required = {"identity", "memory"}
  MaxHatches = 3
  Process = {p1, p2}
  Service = {d1, d2}
  VaultMishaps = 1
  Request = {r1, r2}
  SelfLaunched = {r2}
  Destination = {d1, d2}
  Submitter = {c1, c2}
  MaxDisturbances = 1
  Parts = {"briefs", "webhooks", "posts", "messages", "text", "home", "venvs", "memory",
           "backups", "boot", "hatch", "vault"}
INVARIANT DeliveredOnce
INVARIANT TokensAreRight
INVARIANT AdmittedRightly
INVARIANT PostsAreRight
INVARIANT NoEyesLeft
INVARIANT NothingLost
INVARIANT OneDaemon
INVARIANT LinkIsWhole
INVARIANT NothingIsForgotten
INVARIANT LastOfDayIsKept
INVARIANT MistakesAreContained
INVARIANT NothingIsLost
PROPERTY GrowthIsKept
CHECK_DEADLOCK FALSE
