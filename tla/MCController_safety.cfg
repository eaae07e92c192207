CONSTANTS
  c1 = c1  c2 = c2  m1 = m1  m2 = m2  m3 = m3  r1 = r1
  p1 = p1  p2 = p2  wifi = wifi  lte = lte
  watcher = watcher  boot = boot
  Offline = Offline  NoPort = NoPort  NoThread = NoThread
  MaxAutomaticAttempts = 1
  ConnectAttempts = 2
  Callers = {c1}
  Monitors = {m1, m2}
  Redials = {r1}
  Ports = {p1}
  Networks = {wifi, lte}
  AutoConnect = TRUE
  WatchesNetwork = TRUE
  StoreMayFail = TRUE
  PromptCount = FALSE
SPECIFICATION Spec
SYMMETRY Interchangeable
INVARIANTS TypeOK DisconnectedMeansStopped OneLiveMonitor
