CONSTANTS
  c1 = c1  c2 = c2  m1 = m1  m2 = m2  m3 = m3  r1 = r1
  p1 = p1  p2 = p2  wifi = wifi  lte = lte
  watcher = watcher  boot = boot
  Offline = Offline  NoPort = NoPort  NoThread = NoThread
  MaxAutomaticAttempts = 1
  ConnectAttempts = 2
  Callers = {c1}
  Monitors = {m1, m2}
  Redials = {}
  Ports = {p1}
  Networks = {wifi}
  AutoConnect = FALSE
  WatchesNetwork = TRUE
  StoreMayFail = FALSE
  PromptCount = FALSE
SPECIFICATION FairSpec
INVARIANTS NoOrphanedProgress
PROPERTIES ProgressSettles
